---- MODULE Spec2Model ----
(***************************************************************************)
(* TonPay402 off-chain coordination core.                                  *)
(*                                                                         *)
(*   SpecLedger      the envelope ledger (broker) called as a library      *)
(*   SpecEnvelopePay the MCP server's envelope tools, whose handlers       *)
(*                   interleave at their await points                      *)
(*   SpecBot         the Telegram approval bot: poll loop, approve and     *)
(*                   reject callback handlers                              *)
(*   SpecPoll        the poll loop with overlapping ticks and restarts     *)
(*   SpecCrash       the bot with restarts                                 *)
(*   SpecAudit       the audit file shared by the MCP server process and   *)
(*                   the bot process                                       *)
(*   SpecAuditCrash  SpecAudit with a stop of the bot between the audit    *)
(*                   write and the state write of a claim                  *)
(*   SpecFacilitator the facilitator client's attempt loop                 *)
(*   SpecInstances   the envelope tools with a second server process on    *)
(*                   the same broker state file                            *)
(*   SpecPayment     one payment tool call of the MCP server from the      *)
(*                   facilitator decision to the audit record              *)
(***************************************************************************)
EXTENDS Integers, Sequences, FiniteSets, TLC

(***************************************************************************)
(* Bounds of the model.                                                    *)
(***************************************************************************)
MaxTime == 2
MaxAmount == 5
MaxBudget == 11
MaxPeriod == 2
NumHandlers == 2
NumTxs == 2
NumAudit == 1
NumCallbacks == 2
NumTicks == 2
BotMaxTime == 1
MaxAuditLen == 2
MaxRetry == 2

VARIABLES
    clock,              \* Date.now() / 1000, floored (nowSeconds)
    envelopes,          \* BrokerState.envelopes of the state object in memory
    last,               \* the last ledger call: its arguments and its outcome
    brokerFile,         \* contents of BROKER_STATE_FILE
    pay,                \* execute_envelope_payment handlers in progress
    auditFile,          \* contents of REQUEST_AUDIT_FILE
    approvalRecords,    \* bot: Map approvalRecords
    pendingApprovals,   \* bot: Map pendingApprovals (its key set)
    seenTransactions,   \* bot: Set seenTransactions
    stateFile,          \* contents of APPROVAL_STATE_FILE
    chain,              \* transactions of the monitored contract, oldest first
    poll,               \* bot: the setInterval callback in progress
    cb,                 \* bot: callbackQuery handlers in progress
    sends,              \* contract.send calls made by submitOwnerApproval
    prompts,            \* approval prompts delivered by bot.api.sendMessage
    auditIo,            \* reads of the audit file not yet followed by the write
    config,             \* process.env of the MCP server (facilitator settings)
    facilitator         \* the call of requestFacilitatorDecision in progress

ledgerVars == <<clock, envelopes, last>>
payVars == <<brokerFile, pay, config, facilitator>>
botVars == <<approvalRecords, pendingApprovals, seenTransactions, stateFile,
             chain, poll, cb, sends, prompts, auditIo>>
vars == <<clock, envelopes, last, brokerFile, pay, auditFile, approvalRecords,
          pendingApprovals, seenTransactions, stateFile, chain, poll, cb, sends,
          prompts, auditIo, config, facilitator>>

(***************************************************************************)
(* bigint <-> decimal string, as stored in EnvelopeRecord.                 *)
(***************************************************************************)
DigitChars == <<"0", "1", "2", "3", "4", "5", "6", "7", "8", "9">>

RECURSIVE NatToString(_)
NatToString(n) ==
    IF n < 10 THEN <<DigitChars[n + 1]>>
    ELSE Append(NatToString(n \div 10), DigitChars[(n % 10) + 1])

BigIntToString(n) ==
    IF n < 0 THEN <<"-">> \o NatToString(0 - n) ELSE NatToString(n)

DigitValue(c) == CHOOSE d \in 0..9 : DigitChars[d + 1] = c

RECURSIVE ParseDigits(_)
ParseDigits(s) ==
    IF Len(s) = 0 THEN 0
    ELSE ParseDigits(SubSeq(s, 1, Len(s) - 1)) * 10 + DigitValue(s[Len(s)])

BigInt(s) ==
    IF Len(s) > 0 /\ s[1] = "-" THEN 0 - ParseDigits(Tail(s)) ELSE ParseDigits(s)

(***************************************************************************)
(* The envelope ledger (broker).                                           *)
(***************************************************************************)
EnvelopeIds == {"ops"}
AgentIds == {"agent-a", "agent-b"}

Includes(seq, x) == \E i \in 1..Len(seq) : seq[i] = x

ErrNone == "ok"
ErrEnvelopeIdRequired == "envelopeId is required"
ErrTotalBudget == "totalBudgetNano must be greater than 0"
ErrPeriod == "periodSeconds must be greater than 0"
ErrExists == "already exists"
ErrNotFound == "not found"
ErrAgentIdRequired == "agentId is required"
ErrAmount == "amountNano must be greater than 0"
ErrNotAssigned == "is not assigned to envelope"
ErrLimitExceeded == "Envelope limit exceeded"
ErrCannotRollback == "Cannot rollback"

emptyBrokerState == <<>>

\* The outcome of a ledger call: the error thrown (or ErrNone), the state
\* object's envelopes after the call, and the remainingNano returned.
Outcome(err, envs, remaining) ==
    [err |-> err, envelopes |-> envs, remainingNano |-> remaining]

\* normalizeWindow resetting only after the window end has passed.
normalizeWindow_StrictlyAfter(envelope, currentNow) ==
    IF currentNow > envelope.windowStartedAt + envelope.periodSeconds
    THEN [envelope EXCEPT !.windowStartedAt = currentNow,
                          !.spentInWindowNano = <<"0">>]
    ELSE envelope

normalizeWindow(envelope, currentNow) ==
    IF currentNow >= envelope.windowStartedAt + envelope.periodSeconds
    THEN [envelope EXCEPT !.windowStartedAt = currentNow,
                          !.spentInWindowNano = <<"0">>]
    ELSE envelope

Put(envs, id, envelope) ==
    [k \in DOMAIN envs \cup {id} |-> IF k = id THEN envelope ELSE envs[k]]

createEnvelope(envs, envelopeId, totalBudgetNano, periodSeconds, now) ==
    IF envelopeId = "" THEN Outcome(ErrEnvelopeIdRequired, envs, 0)
    ELSE IF totalBudgetNano <= 0 THEN Outcome(ErrTotalBudget, envs, 0)
    ELSE IF periodSeconds <= 0 THEN Outcome(ErrPeriod, envs, 0)
    ELSE IF envelopeId \in DOMAIN envs THEN Outcome(ErrExists, envs, 0)
    ELSE Outcome(ErrNone,
                 Put(envs, envelopeId,
                     [id |-> envelopeId,
                      totalBudgetNano |-> BigIntToString(totalBudgetNano),
                      spentInWindowNano |-> <<"0">>,
                      periodSeconds |-> periodSeconds,
                      windowStartedAt |-> now,
                      createdAt |-> now,
                      agentIds |-> <<>>]),
                 0)

assignAgentToEnvelope(envs, envelopeId, agentId) ==
    IF envelopeId \notin DOMAIN envs THEN Outcome(ErrNotFound, envs, 0)
    ELSE IF agentId = "" THEN Outcome(ErrAgentIdRequired, envs, 0)
    ELSE IF ~Includes(envs[envelopeId].agentIds, agentId)
         THEN Outcome(ErrNone,
                      [envs EXCEPT ![envelopeId].agentIds = Append(@, agentId)], 0)
         ELSE Outcome(ErrNone, envs, 0)

getEnvelopeAllowance(envs, envelopeId, now) ==
    IF envelopeId \notin DOMAIN envs THEN Outcome(ErrNotFound, envs, 0)
    ELSE LET normalized == normalizeWindow(envs[envelopeId], now)
             total == BigInt(normalized.totalBudgetNano)
             spent == BigInt(normalized.spentInWindowNano)
         IN  Outcome(ErrNone, [envs EXCEPT ![envelopeId] = normalized], total - spent)

\* reserveEnvelopeBudget with one of its checks changed:
\*   checkAgent = FALSE  the assignment check is missing
\*   limit = "none"      the allowance check is missing
\*   limit = "total"     the amount is compared with the total budget
reserveEnvelopeBudget_Variant(envs, envelopeId, agentId, amountNano, now,
                              checkAgent, limit) ==
    IF amountNano <= 0 THEN Outcome(ErrAmount, envs, 0)
    ELSE LET allowance == getEnvelopeAllowance(envs, envelopeId, now) IN
         IF allowance.err # ErrNone THEN allowance
         ELSE LET envelope == allowance.envelopes[envelopeId]
                  remainingNano == allowance.remainingNano
                  nextSpent == BigInt(envelope.spentInWindowNano) + amountNano
                  bound == IF limit = "total"
                           THEN BigInt(envelope.totalBudgetNano)
                           ELSE remainingNano
              IN  IF checkAgent /\ ~Includes(envelope.agentIds, agentId)
                  THEN Outcome(ErrNotAssigned, allowance.envelopes, remainingNano)
                  ELSE IF limit # "none" /\ amountNano > bound
                  THEN Outcome(ErrLimitExceeded, allowance.envelopes, remainingNano)
                  ELSE Outcome(ErrNone,
                               [allowance.envelopes EXCEPT
                                   ![envelopeId].spentInWindowNano =
                                       BigIntToString(nextSpent)],
                               BigInt(envelope.totalBudgetNano) - nextSpent)

reserveEnvelopeBudget_NoLimitCheck(envs, envelopeId, agentId, amountNano, now) ==
    reserveEnvelopeBudget_Variant(envs, envelopeId, agentId, amountNano, now,
                                  TRUE, "none")

reserveEnvelopeBudget_LimitOnTotal(envs, envelopeId, agentId, amountNano, now) ==
    reserveEnvelopeBudget_Variant(envs, envelopeId, agentId, amountNano, now,
                                  TRUE, "total")

reserveEnvelopeBudget_NoAgentCheck(envs, envelopeId, agentId, amountNano, now) ==
    reserveEnvelopeBudget_Variant(envs, envelopeId, agentId, amountNano, now,
                                  FALSE, "remaining")

reserveEnvelopeBudget(envs, envelopeId, agentId, amountNano, now) ==
    IF amountNano <= 0 THEN Outcome(ErrAmount, envs, 0)
    ELSE LET allowance == getEnvelopeAllowance(envs, envelopeId, now) IN
         IF allowance.err # ErrNone THEN allowance
         ELSE LET envelope == allowance.envelopes[envelopeId]
                  remainingNano == allowance.remainingNano
                  nextSpent == BigInt(envelope.spentInWindowNano) + amountNano
              IN  IF ~Includes(envelope.agentIds, agentId)
                  THEN Outcome(ErrNotAssigned, allowance.envelopes, remainingNano)
                  ELSE IF amountNano > remainingNano
                  THEN Outcome(ErrLimitExceeded, allowance.envelopes, remainingNano)
                  ELSE Outcome(ErrNone,
                               [allowance.envelopes EXCEPT
                                   ![envelopeId].spentInWindowNano =
                                       BigIntToString(nextSpent)],
                               BigInt(envelope.totalBudgetNano) - nextSpent)

\* rollbackEnvelopeReservation that returns the updated record without
\* storing it in the state object.
rollbackEnvelopeReservation_NotStored(envs, envelopeId, amountNano) ==
    IF amountNano <= 0 THEN Outcome(ErrAmount, envs, 0)
    ELSE IF envelopeId \notin DOMAIN envs THEN Outcome(ErrNotFound, envs, 0)
    ELSE LET spent == BigInt(envs[envelopeId].spentInWindowNano)
             nextSpent == spent - amountNano
         IN  IF nextSpent < 0 THEN Outcome(ErrCannotRollback, envs, 0)
             ELSE Outcome(ErrNone, envs, 0)

\* rollbackEnvelopeReservation without the nextSpent < 0 test.
rollbackEnvelopeReservation_NoSpentCheck(envs, envelopeId, amountNano) ==
    IF amountNano <= 0 THEN Outcome(ErrAmount, envs, 0)
    ELSE IF envelopeId \notin DOMAIN envs THEN Outcome(ErrNotFound, envs, 0)
    ELSE Outcome(ErrNone,
                 [envs EXCEPT ![envelopeId].spentInWindowNano =
                     BigIntToString(BigInt(envs[envelopeId].spentInWindowNano)
                                    - amountNano)],
                 0)

rollbackEnvelopeReservation(envs, envelopeId, amountNano) ==
    IF amountNano <= 0 THEN Outcome(ErrAmount, envs, 0)
    ELSE IF envelopeId \notin DOMAIN envs THEN Outcome(ErrNotFound, envs, 0)
    ELSE LET spent == BigInt(envs[envelopeId].spentInWindowNano)
             nextSpent == spent - amountNano
         IN  IF nextSpent < 0 THEN Outcome(ErrCannotRollback, envs, 0)
             ELSE Outcome(ErrNone,
                          [envs EXCEPT ![envelopeId].spentInWindowNano =
                                           BigIntToString(nextSpent)],
                          0)

(***************************************************************************)
(* SpecLedger: the ledger functions called in any order on one state       *)
(* object, at non-decreasing times.                                        *)
(***************************************************************************)
EnvelopeIdInputs == EnvelopeIds \cup {""}
AgentIdInputs == AgentIds \cup {""}
BudgetInputs == {0, MaxBudget}
PeriodInputs == 0..MaxPeriod
AmountInputs == {0 - 1, 0, 1, MaxAmount, MaxBudget + 1}

NoCall ==
    [op |-> "none", envelopeId |-> "", agentId |-> "", amountNano |-> 0,
     now |-> 0, err |-> ErrNone, remainingNano |-> 0, allowanceNano |-> 0,
     windowReset |-> FALSE, afterReserve |-> FALSE]

\* Whether the call replaced the envelope's window (observed on the outcome).
WindowReset(envs, out, id) ==
    /\ id \in DOMAIN envs
    /\ id \in DOMAIN out.envelopes
    /\ out.envelopes[id].windowStartedAt # envs[id].windowStartedAt

Call(op, id, agent, amount, out, allowanceNano) ==
    [op |-> op, envelopeId |-> id, agentId |-> agent, amountNano |-> amount,
     now |-> clock, err |-> out.err, remainingNano |-> out.remainingNano,
     allowanceNano |-> allowanceNano,
     windowReset |-> WindowReset(envelopes, out, id),
     afterReserve |-> /\ op = "rollback"
                      /\ last.op = "reserve"
                      /\ last.err = ErrNone
                      /\ last.envelopeId = id
                      /\ last.amountNano = amount]

\* String.prototype.trim on a string given as its characters; a variable
\* that is not set reads as the empty string (?. and ?? "").
\* trim left out: the string as it was written.
trim_None(s) == s

RECURSIVE trim(_)
trim(s) ==
    IF Len(s) > 0 /\ s[1] = " " THEN trim(Tail(s))
    ELSE IF Len(s) > 0 /\ s[Len(s)] = " " THEN trim(SubSeq(s, 1, Len(s) - 1))
    ELSE s

\* const url = config.url?.trim() ?? ""
UrlOf(cfg) == trim(cfg.X402_FACILITATOR_URL)

DefaultConfig == [X402_FACILITATOR_URL |-> <<>>, FACILITATOR_FAIL_OPEN |-> FALSE]

\* No call of requestFacilitatorDecision has been made.
IdleFacilitator ==
    [pc |-> "idle", retryAttempts |-> 0, attempt |-> 0, calls |-> 0,
     responses |-> <<>>, lastError |-> "undefined", result |-> <<>>]

InitLedgerVars ==
    /\ clock = 0
    /\ envelopes = emptyBrokerState
    /\ last = NoCall

InitNoPay ==
    /\ brokerFile = emptyBrokerState
    /\ pay = <<>>
    /\ auditFile = <<>>
    /\ config = DefaultConfig
    /\ facilitator = IdleFacilitator

InitNoBot ==
    /\ approvalRecords = <<>>
    /\ pendingApprovals = <<>>
    /\ seenTransactions = {}
    /\ stateFile = [approvals |-> <<>>, seenTransactions |-> {}]
    /\ chain = <<>>
    /\ poll = <<>>
    /\ cb = <<>>
    /\ sends = {}
    /\ prompts = <<>>
    /\ auditIo = <<>>

InitLedger == InitLedgerVars /\ InitNoPay /\ InitNoBot

AdvanceClock ==
    /\ clock < MaxTime
    /\ clock' = clock + 1
    /\ UNCHANGED <<envelopes, last, payVars, auditFile, botVars>>

LedgerCreate(id, total, period) ==
    LET out == createEnvelope(envelopes, id, total, period, clock) IN
    /\ envelopes' = out.envelopes
    /\ last' = Call("create", id, "", 0, out, 0)
    /\ UNCHANGED <<clock, payVars, auditFile, botVars>>

LedgerAssign(id, agent) ==
    LET out == assignAgentToEnvelope(envelopes, id, agent) IN
    /\ envelopes' = out.envelopes
    /\ last' = Call("assign", id, agent, 0, out, 0)
    /\ UNCHANGED <<clock, payVars, auditFile, botVars>>

LedgerAllowance(id) ==
    LET out == getEnvelopeAllowance(envelopes, id, clock) IN
    /\ envelopes' = out.envelopes
    /\ last' = Call("allowance", id, "", 0, out, out.remainingNano)
    /\ UNCHANGED <<clock, payVars, auditFile, botVars>>

LedgerReserve(id, agent, amount) ==
    LET out == reserveEnvelopeBudget(envelopes, id, agent, amount, clock)
        \* remainingNano of the getEnvelopeAllowance call made by the reservation
        allowance == getEnvelopeAllowance(envelopes, id, clock)
    IN
    /\ envelopes' = out.envelopes
    /\ last' = Call("reserve", id, agent, amount, out,
                    IF amount > 0 THEN allowance.remainingNano ELSE 0)
    /\ UNCHANGED <<clock, payVars, auditFile, botVars>>

LedgerRollback(id, amount) ==
    LET out == rollbackEnvelopeReservation(envelopes, id, amount) IN
    /\ envelopes' = out.envelopes
    /\ last' = Call("rollback", id, "", amount, out, 0)
    /\ UNCHANGED <<clock, payVars, auditFile, botVars>>

NextLedger ==
    \/ AdvanceClock
    \/ \E id \in EnvelopeIdInputs, total \in BudgetInputs, period \in PeriodInputs :
           LedgerCreate(id, total, period)
    \/ \E id \in EnvelopeIds, agent \in AgentIdInputs : LedgerAssign(id, agent)
    \/ \E id \in EnvelopeIds : LedgerAllowance(id)
    \/ \E id \in EnvelopeIds, agent \in AgentIds, amount \in AmountInputs :
           LedgerReserve(id, agent, amount)
    \/ \E id \in EnvelopeIds, amount \in AmountInputs : LedgerRollback(id, amount)

SpecLedger == InitLedger /\ [][NextLedger]_vars

Spent(e) == BigInt(e.spentInWindowNano)
Total(e) == BigInt(e.totalBudgetNano)

\* C5: every stored envelope satisfies 0 <= spent <= total.
EnvelopeSpentWithinTotal ==
    \A id \in DOMAIN envelopes :
        /\ 0 <= Spent(envelopes[id])
        /\ Spent(envelopes[id]) <= Total(envelopes[id])

\* Witness of C5: a successful reservation has used the whole budget.
BudgetFullyReserved ==
    /\ last.op = "reserve"
    /\ last.err = ErrNone
    /\ last.envelopeId \in DOMAIN envelopes
    /\ Spent(envelopes[last.envelopeId]) = Total(envelopes[last.envelopeId])

\* The step is a call of the named ledger function, with the arguments and
\* the outcome that last' records.
ReserveStep ==
    /\ last'.op = "reserve"
    /\ LedgerReserve(last'.envelopeId, last'.agentId, last'.amountNano)
AllowanceStep ==
    /\ last'.op = "allowance"
    /\ LedgerAllowance(last'.envelopeId)
RollbackStep ==
    /\ last'.op = "rollback"
    /\ LedgerRollback(last'.envelopeId, last'.amountNano)

Elapsed(e, now) == now >= e.windowStartedAt + e.periodSeconds
RemainingAt(e, now) == IF Elapsed(e, now) THEN Total(e) ELSE Total(e) - Spent(e)

\* e2 is e after the lazy window rule at time now, with inc added to spent.
LazilyReset(e, e2, now, inc) ==
    /\ e2.id = e.id
    /\ e2.totalBudgetNano = e.totalBudgetNano
    /\ e2.periodSeconds = e.periodSeconds
    /\ e2.createdAt = e.createdAt
    /\ e2.agentIds = e.agentIds
    /\ IF Elapsed(e, now)
       THEN e2.windowStartedAt = now /\ Spent(e2) = inc
       ELSE e2.windowStartedAt = e.windowStartedAt /\ Spent(e2) = Spent(e) + inc

\* C7 as stated: a reservation whose amount exceeds the remaining allowance
\* fails with the budget-exceeded error and leaves the stored envelope
\* exactly as it was.
ReserveOverAllowanceChangesNothing ==
    [][LET id == last'.envelopeId
           agent == last'.agentId
           amount == last'.amountNano
       IN ( /\ ReserveStep
            /\ id \in DOMAIN envelopes
            /\ amount > RemainingAt(envelopes[id], clock) )
          => ( /\ last'.err = ErrLimitExceeded
               /\ envelopes' = envelopes )]_vars

\* C7 amended: a reservation by an assigned agent whose amount exceeds the
\* remaining allowance fails with the budget-exceeded error and leaves the
\* stored envelope as the lazy window rule leaves it: unchanged inside the
\* window, spent reset to 0 and the window start set to now otherwise.
ReserveOverAllowanceFails ==
    [][LET id == last'.envelopeId
           agent == last'.agentId
           amount == last'.amountNano
       IN ( /\ ReserveStep
            /\ id \in DOMAIN envelopes
            /\ Includes(envelopes[id].agentIds, agent)
            /\ amount > RemainingAt(envelopes[id], clock) )
          => ( /\ last'.err = ErrLimitExceeded
               /\ DOMAIN envelopes' = DOMAIN envelopes
               /\ LazilyReset(envelopes[id], envelopes'[id], clock, 0)
               /\ \A other \in DOMAIN envelopes \ {id} :
                      envelopes'[other] = envelopes[other] )]_vars

\* Witness of C7: a reservation failed on the limit in a call that also
\* started a new window.
OverAllowanceInNewWindow ==
    /\ last.op = "reserve"
    /\ last.err = ErrLimitExceeded
    /\ last.windowReset

\* C8 as stated: a reservation for an unassigned agent fails with the
\* unauthorized error and the stored envelope is exactly as before.
ReserveUnassignedChangesNothing ==
    [][LET id == last'.envelopeId
           agent == last'.agentId
           amount == last'.amountNano
       IN ( /\ ReserveStep
            /\ id \in DOMAIN envelopes
            /\ ~Includes(envelopes[id].agentIds, agent) )
          => ( /\ last'.err = ErrNotAssigned
               /\ envelopes' = envelopes )]_vars

\* C8 amended: a reservation of a positive amount for an unassigned agent
\* fails with the unauthorized error, reserves nothing and leaves the stored
\* envelope as the lazy window rule leaves it.
ReserveUnassignedFails ==
    [][LET id == last'.envelopeId
           agent == last'.agentId
           amount == last'.amountNano
       IN ( /\ ReserveStep
            /\ id \in DOMAIN envelopes
            /\ amount > 0
            /\ ~Includes(envelopes[id].agentIds, agent) )
          => ( /\ last'.err = ErrNotAssigned
               /\ DOMAIN envelopes' = DOMAIN envelopes
               /\ LazilyReset(envelopes[id], envelopes'[id], clock, 0)
               /\ \A other \in DOMAIN envelopes \ {id} :
                      envelopes'[other] = envelopes[other] )]_vars

\* Witness of C8: an unassigned agent was refused in a call that also started
\* a new window, on an envelope that has another agent assigned.
UnassignedRefusedInNewWindow ==
    /\ last.op = "reserve"
    /\ last.err = ErrNotAssigned
    /\ last.windowReset
    /\ Len(envelopes[last.envelopeId].agentIds) > 0

\* C9: a successful reservation immediately followed by the rollback of the
\* same amount restores the remaining allowance reported at the time of the
\* reservation.
ReserveRollbackRoundTrip ==
    [][LET id == last'.envelopeId
           amount == last'.amountNano
       IN ( /\ RollbackStep
            /\ last.op = "reserve"
            /\ last.err = ErrNone
            /\ last.envelopeId = id
            /\ last.amountNano = amount )
          => ( /\ last'.err = ErrNone
               /\ getEnvelopeAllowance(envelopes', id, last.now).remainingNano
                      = last.allowanceNano )]_vars

\* Witness of C9: a rollback has undone the reservation made just before it.
RolledBackAfterReserve ==
    /\ last.op = "rollback"
    /\ last.err = ErrNone
    /\ last.afterReserve
    /\ last.envelopeId \in DOMAIN envelopes
    /\ Spent(envelopes[last.envelopeId]) > 0

\* C11: rollbackEnvelopeReservation fails and changes no envelope when the
\* amount exceeds the envelope's current spent, when the amount is <= 0 and
\* when the envelope is unknown.
RollbackRefusedChangesNothing ==
    [][LET id == last'.envelopeId
           amount == last'.amountNano
       IN  RollbackStep =>
             /\ amount <= 0
                   => last'.err = ErrAmount /\ envelopes' = envelopes
             /\ (amount > 0 /\ id \notin DOMAIN envelopes)
                   => last'.err = ErrNotFound /\ envelopes' = envelopes
             /\ (amount > 0 /\ id \in DOMAIN envelopes
                            /\ amount > Spent(envelopes[id]))
                   => last'.err = ErrCannotRollback /\ envelopes' = envelopes]_vars

\* Witness of C11: a rollback of more than the envelope's positive spent was
\* refused.
RollbackOverSpentRefused ==
    /\ last.op = "rollback"
    /\ last.err = ErrCannotRollback
    /\ last.envelopeId \in DOMAIN envelopes
    /\ Spent(envelopes[last.envelopeId]) > 0
    /\ last.amountNano > Spent(envelopes[last.envelopeId])

\* The lazy window rule on one call: inc is the amount the call reserved.
LazyRuleApplied(id, inc) ==
    /\ id \in DOMAIN envelopes'
    /\ LazilyReset(envelopes[id], envelopes'[id], clock, inc)

\* C10 as stated: every getEnvelopeAllowance and reserveEnvelopeBudget call
\* applies the lazy window rule and stores the result.
LazyWindowResetOnEveryCall ==
    [][LET id == last'.envelopeId
           amount == last'.amountNano
       IN /\ (AllowanceStep /\ id \in DOMAIN envelopes)
                => ( /\ LazyRuleApplied(id, 0)
                     /\ last'.remainingNano = Total(envelopes[id])
                                                - Spent(envelopes'[id]) )
          /\ (ReserveStep /\ id \in DOMAIN envelopes)
                => LazyRuleApplied(id, IF last'.err = ErrNone THEN amount ELSE 0)
      ]_vars

\* C10 amended: getEnvelopeAllowance, and reserveEnvelopeBudget with a
\* positive amount, apply the lazy window rule and store the result.
LazyWindowReset ==
    [][LET id == last'.envelopeId
           amount == last'.amountNano
       IN /\ (AllowanceStep /\ id \in DOMAIN envelopes)
                => ( /\ LazyRuleApplied(id, 0)
                     /\ last'.remainingNano = Total(envelopes[id])
                                                - Spent(envelopes'[id]) )
          /\ (ReserveStep /\ id \in DOMAIN envelopes /\ amount > 0)
                => LazyRuleApplied(id, IF last'.err = ErrNone THEN amount ELSE 0)
      ]_vars

\* Witness of C10: a reservation started a new window exactly at the end of
\* the previous one and its amount is the whole of the new window's spent.
ReservedAtWindowEnd ==
    /\ last.op = "reserve"
    /\ last.err = ErrNone
    /\ last.windowReset
    /\ last.envelopeId \in DOMAIN envelopes
    /\ envelopes[last.envelopeId].windowStartedAt = last.now
    /\ Spent(envelopes[last.envelopeId]) = last.amountNano

(***************************************************************************)
(* TON amounts: decimal strings of TON <-> nano (toNano, fromNano).        *)
(***************************************************************************)
NanoPerTon == 1000000000
FractionDigits == 9

RECURSIVE Zeros(_)
Zeros(n) == IF n <= 0 THEN <<>> ELSE <<"0">> \o Zeros(n - 1)

IndexOfDot(s) ==
    IF \E i \in 1..Len(s) : s[i] = "."
    THEN CHOOSE i \in 1..Len(s) : s[i] = "." /\ \A j \in 1..(i - 1) : s[j] # "."
    ELSE 0

toNano(src) ==
    LET dot == IndexOfDot(src)
        whole == IF dot = 0 THEN src ELSE SubSeq(src, 1, dot - 1)
        frac == IF dot = 0 THEN <<>> ELSE SubSeq(src, dot + 1, Len(src))
        padded == frac \o Zeros(FractionDigits - Len(frac))
    IN  BigInt(whole) * NanoPerTon + BigInt(padded)

RECURSIVE StripTrailingZeros(_)
StripTrailingZeros(s) ==
    IF Len(s) > 0 /\ s[Len(s)] = "0"
    THEN StripTrailingZeros(SubSeq(s, 1, Len(s) - 1))
    ELSE s

fromNano(n) ==
    LET whole == NatToString(n \div NanoPerTon)
        digits == NatToString(n % NanoPerTon)
        frac == StripTrailingZeros(Zeros(FractionDigits - Len(digits)) \o digits)
    IN  IF Len(frac) = 0 THEN whole ELSE whole \o <<".">> \o frac

(***************************************************************************)
(* SpecEnvelopePay: the MCP server's envelope tools.  Each tool call is a  *)
(* request handler; handlers interleave at their await points.             *)
(***************************************************************************)
Handlers == 1..NumHandlers
ContractAddress == "EQ-contract"
TargetAddress == "EQ-merchant"
FacilitatorTarget == "EQ-facilitator-target"
FacilitatorUrl == <<"h", "t", "t", "p", "s", ":", "/", "/", "f", ".", "x">>
\* The request id of the h-th tool call: the client's, or the generated
\* req_<time>_<random>.
RequestIdOf(h) == <<"req", h>>
PayAmountInputs == {0, MaxAmount, MaxBudget - 1}
TonAmountInputs == {fromNano(n) : n \in PayAmountInputs}
TonBudgetInputs == {fromNano(n) : n \in BudgetInputs}
RemainingAllowanceInputs == {0, MaxBudget}

ErrFacilitator == "x402 facilitator integration failed"
ErrChainSubmission == "chain submission failed"

IdlePay ==
    [pc |-> "idle", envelopeId |-> "", requestId |-> <<>>,
     targetAddress |-> "", amountInTon |-> <<>>, amountNano |-> 0,
     window |-> 0, err |-> ErrNone]

\* A handler that has returned or thrown: its locals are gone; what stays is
\* the outcome and, of a payment that was submitted, the envelope, amount
\* and window of its reservation.
Finished(p, pc, err) ==
    IF pc = "done"
    THEN [IdlePay EXCEPT !.pc = pc, !.err = err, !.envelopeId = p.envelopeId,
                         !.amountNano = p.amountNano, !.window = p.window]
    ELSE [IdlePay EXCEPT !.pc = pc, !.err = err]

\* The results requestFacilitatorDecision can produce for a request: null
\* when no URL is configured; otherwise a decision (whose target and amount
\* are the response's or the caller's) or a thrown error.
FacilitatorResults(targetAddress, amountInTon) ==
    IF UrlOf(config) = <<>>
    THEN {[kind |-> "null", targetAddress |-> "", amountInTon |-> <<>>]}
    ELSE {[kind |-> "throw", targetAddress |-> "", amountInTon |-> <<>>]}
         \cup {[kind |-> "decision", targetAddress |-> targetAddress,
                 amountInTon |-> amountInTon],
                [kind |-> "decision", targetAddress |-> FacilitatorTarget,
                 amountInTon |-> fromNano(MaxAmount)]}

\* preparePaymentRequest that keeps the caller's amount whatever the decision.
preparePaymentRequest_CallerAmount(targetAddress, amountInTon, requestId, result) ==
    IF result.kind = "throw" /\ ~config.FACILITATOR_FAIL_OPEN
    THEN [err |-> ErrFacilitator, requestId |-> requestId,
          targetAddr |-> "", amountNano |-> 0, amountInTon |-> <<>>]
    ELSE [err |-> ErrNone, requestId |-> requestId,
          targetAddr |-> IF result.kind = "decision" THEN result.targetAddress
                         ELSE targetAddress,
          amountNano |-> toNano(amountInTon),
          amountInTon |-> amountInTon]

\* preparePaymentRequest that swallows the facilitator error whatever the flag.
preparePaymentRequest_AlwaysOpen(targetAddress, amountInTon, requestId, result) ==
    LET effectiveTargetAddress ==
            IF result.kind = "decision" THEN result.targetAddress ELSE targetAddress
        effectiveAmountInTon ==
            IF result.kind = "decision" THEN result.amountInTon ELSE amountInTon
    IN  [err |-> ErrNone, requestId |-> requestId,
         targetAddr |-> effectiveTargetAddress,
         amountNano |-> toNano(effectiveAmountInTon),
         amountInTon |-> effectiveAmountInTon]

preparePaymentRequest(targetAddress, amountInTon, requestId, result) ==
    IF result.kind = "throw" /\ ~config.FACILITATOR_FAIL_OPEN
    THEN [err |-> ErrFacilitator, requestId |-> requestId,
          targetAddr |-> "", amountNano |-> 0, amountInTon |-> <<>>]
    ELSE LET effectiveTargetAddress ==
                 IF result.kind = "decision" THEN result.targetAddress
                 ELSE targetAddress
             effectiveAmountInTon ==
                 IF result.kind = "decision" THEN result.amountInTon
                 ELSE amountInTon
         IN  [err |-> ErrNone, requestId |-> requestId,
              targetAddr |-> effectiveTargetAddress,
              amountNano |-> toNano(effectiveAmountInTon),
              amountInTon |-> effectiveAmountInTon]

\* saveBrokerState runs only when the ledger call did not throw.
SavedAfter(out) == IF out.err = ErrNone THEN out.envelopes ELSE brokerFile

appendAuditRecord(records, record) == Append(records, record)

\* readBrokerState: the state object is the parsed state file.
readBrokerState(file) == file

\* A state file left by an earlier run of the server: one envelope, created
\* at time 0 with the given window, with one agent assigned.
SavedBrokerState(period) ==
    assignAgentToEnvelope(
        createEnvelope(emptyBrokerState, "ops", MaxBudget, period, 0).envelopes,
        "ops", "agent-a").envelopes

InitPay ==
    /\ clock = 0
    /\ last = NoCall
    /\ InitNoBot
    /\ brokerFile \in {SavedBrokerState(period) : period \in 1..MaxPeriod}
    /\ envelopes = readBrokerState(brokerFile)
    /\ pay = [h \in Handlers |-> IdlePay]
    /\ auditFile = <<>>
    /\ config \in {DefaultConfig}
                  \cup [X402_FACILITATOR_URL : {FacilitatorUrl},
                        FACILITATOR_FAIL_OPEN : BOOLEAN]
    /\ facilitator = IdleFacilitator

ToolCreateEnvelope(id, totalBudgetTon, period) ==
    LET out == createEnvelope(envelopes, id, toNano(totalBudgetTon), period, clock) IN
    /\ envelopes' = out.envelopes
    /\ brokerFile' = SavedAfter(out)
    /\ UNCHANGED <<clock, last, pay, config, facilitator, auditFile, botVars>>

ToolAssignAgent(id, agent) ==
    LET out == assignAgentToEnvelope(envelopes, id, agent) IN
    /\ envelopes' = out.envelopes
    /\ brokerFile' = SavedAfter(out)
    /\ UNCHANGED <<clock, last, pay, config, facilitator, auditFile, botVars>>

ToolGetEnvelopeAllowance(id) ==
    LET out == getEnvelopeAllowance(envelopes, id, clock) IN
    /\ envelopes' = out.envelopes
    /\ brokerFile' = SavedAfter(out)
    /\ UNCHANGED <<clock, last, pay, config, facilitator, auditFile, botVars>>

\* execute_envelope_payment up to its await of submitPreparedPayment:
\* preparePaymentRequest has returned, the budget is reserved and saved.
PayReserve(h, id, agent, amountInTon, result) ==
    LET prepared == preparePaymentRequest(TargetAddress, amountInTon,
                                          RequestIdOf(h), result)
        out == reserveEnvelopeBudget(envelopes, id, agent, prepared.amountNano, clock)
        call == [IdlePay EXCEPT !.envelopeId = id,
                                !.requestId = prepared.requestId,
                                !.targetAddress = prepared.targetAddr,
                                !.amountInTon = prepared.amountInTon,
                                !.amountNano = prepared.amountNano]
    IN
    /\ pay[h].pc = "idle"
    /\ \A g \in Handlers : g < h => pay[g].pc # "idle"
    /\ IF prepared.err # ErrNone
       THEN /\ pay' = [pay EXCEPT ![h] = [IdlePay EXCEPT !.pc = "failed",
                                                         !.err = prepared.err]]
            /\ UNCHANGED <<envelopes, brokerFile>>
       ELSE /\ envelopes' = out.envelopes
            /\ brokerFile' = SavedAfter(out)
            /\ pay' = [pay EXCEPT ![h] =
                  IF out.err = ErrNone
                  THEN [call EXCEPT !.pc = "submitting",
                                    !.window = out.envelopes[id].windowStartedAt]
                  ELSE [IdlePay EXCEPT !.pc = "failed", !.err = out.err]]
    /\ UNCHANGED <<clock, last, config, facilitator, auditFile, botVars>>

\* submitPreparedPayment returned: the audit record is appended, the
\* allowance is read again and the state saved.
PaySubmitted(h, remaining) ==
    LET p == pay[h]
        approvalExpected == p.amountNano > remaining
        out == getEnvelopeAllowance(envelopes, p.envelopeId, clock)
    IN
    /\ p.pc = "submitting"
    /\ auditFile' = appendAuditRecord(auditFile,
           [requestId |-> p.requestId,
            contractAddress |-> ContractAddress,
            targetAddress |-> p.targetAddress,
            amountInTon |-> p.amountInTon,
            amountNano |-> BigIntToString(p.amountNano),
            createdAt |-> clock,
            status |-> IF approvalExpected THEN "approval_pending" ELSE "submitted",
            approvalExpected |-> approvalExpected,
            consumedByApprovalId |-> "",
            statusUpdatedAt |-> 0 - 1])
    /\ envelopes' = out.envelopes
    /\ brokerFile' = SavedAfter(out)
    /\ pay' = [pay EXCEPT ![h] = Finished(p, "done", ErrNone)]
    /\ UNCHANGED <<clock, last, config, facilitator, botVars>>

\* submitPreparedPayment threw: the catch block rolls the reservation back,
\* saves, and rethrows; an error thrown by the rollback replaces it.
PaySubmitFailed(h) ==
    LET p == pay[h]
        out == rollbackEnvelopeReservation(envelopes, p.envelopeId, p.amountNano)
    IN
    /\ p.pc = "submitting"
    /\ envelopes' = out.envelopes
    /\ brokerFile' = SavedAfter(out)
    /\ pay' = [pay EXCEPT ![h] =
           Finished(p, "submitFailed",
                    IF out.err = ErrNone THEN ErrChainSubmission ELSE out.err)]
    /\ UNCHANGED <<clock, last, config, facilitator, auditFile, botVars>>

NextPay ==
    \/ AdvanceClock
    \/ \E id \in EnvelopeIds, total \in TonBudgetInputs :
           ToolCreateEnvelope(id, total, MaxPeriod)
    \/ \E id \in EnvelopeIds, agent \in AgentIds : ToolAssignAgent(id, agent)
    \/ \E id \in EnvelopeIds : ToolGetEnvelopeAllowance(id)
    \/ \E h \in Handlers, id \in EnvelopeIds, agent \in AgentIds,
          amountInTon \in TonAmountInputs :
           \E result \in FacilitatorResults(TargetAddress, amountInTon) :
               PayReserve(h, id, agent, amountInTon, result)
    \/ \E h \in Handlers, remaining \in RemainingAllowanceInputs : PaySubmitted(h, remaining)
    \/ \E h \in Handlers : PaySubmitFailed(h)

SpecEnvelopePay == InitPay /\ [][NextPay]_vars

RECURSIVE SumAmounts(_)
SumAmounts(hs) ==
    IF hs = {} THEN 0
    ELSE LET h == CHOOSE x \in hs : TRUE
         IN  pay[h].amountNano + SumAmounts(hs \ {h})

\* The payments reserved in the envelope's stored window whose submission
\* succeeded or is in flight.
Committed(id) ==
    {h \in Handlers : /\ pay[h].pc \in {"submitting", "done"}
                      /\ pay[h].envelopeId = id
                      /\ pay[h].window = envelopes[id].windowStartedAt}

\* C4: the stored spent of the current window covers every reservation of
\* that window whose submission succeeded or is in flight, and these never
\* total more than the budget.
BudgetNeverOvercommitted ==
    \A id \in DOMAIN envelopes :
        /\ Spent(envelopes[id]) >= SumAmounts(Committed(id))
        /\ SumAmounts(Committed(id)) <= Total(envelopes[id])

\* C6: a payment whose submission failed ends with the submission error,
\* and its reservation has been rolled back and saved.
SubmissionFailureRolledBack ==
    \A h \in Handlers :
        pay[h].pc = "submitFailed"
            => /\ pay[h].err = ErrChainSubmission
               /\ brokerFile = envelopes

(***************************************************************************)
(* The approval bot: state file, audit file, chain transactions.           *)
(***************************************************************************)
OWNER_CHAT_ID == "owner-chat"
OtherChatId == "other-chat"
CONTRACT_ADDRESS == ContractAddress
OwnerWallet == "EQ-owner-wallet"
PollLimit == 10
BOOTSTRAP_HISTORY_LIMIT == 20
KeyPrefixLength == 8

NoRequestId == <<>>
Undefined == ""

\* The hash (hex) and logical time of the i-th transaction of the contract.
TxHashHex(i) == Zeros(KeyPrefixLength - 1) \o <<DigitChars[i + 1], "f", "f">>

ApprovalRequestBody == [amount |-> MaxAmount, target |-> TargetAddress]
OtherBody == [amount |-> 0, target |-> Undefined]

Transaction(i, escalated) ==
    [lt |-> i, hash |-> TxHashHex(i),
     outMessages |-> IF escalated THEN <<OtherBody, ApprovalRequestBody>> ELSE <<>>]

approvalKeyFromTx(txLt, txHashHex) ==
    NatToString(txLt) \o <<"-">> \o SubSeq(txHashHex, 1, KeyPrefixLength)

\* loadApprovalRequest succeeds on the body of an ApprovalRequest only.
IsApprovalRequest(body) == body.target # Undefined

NoApproval == [id |-> <<>>, amount |-> 0, target |-> Undefined, txLt |-> <<>>,
               txHashHex |-> <<>>]

\* The parsing of the out messages of a transaction.
ParseOutMessages(tx) ==
    IF \E k \in 1..Len(tx.outMessages) : IsApprovalRequest(tx.outMessages[k])
    THEN LET k == CHOOSE k \in 1..Len(tx.outMessages) :
                      /\ IsApprovalRequest(tx.outMessages[k])
                      /\ \A j \in 1..(k - 1) : ~IsApprovalRequest(tx.outMessages[j])
             parsed == tx.outMessages[k]
         IN  [id |-> approvalKeyFromTx(tx.lt, tx.hash),
              amount |-> parsed.amount,
              target |-> parsed.target,
              txLt |-> NatToString(tx.lt),
              txHashHex |-> tx.hash]
    ELSE NoApproval

\* parseApprovalFromTransaction without the test of the seen set.
parseApprovalFromTransaction_NoSeenCheck(tx, seen) == ParseOutMessages(tx)

parseApprovalFromTransaction(tx, seen) ==
    IF tx.hash \in seen THEN NoApproval ELSE ParseOutMessages(tx)

\* client.getTransactions: the newest transactions first, at most limit.
RECURSIVE Reverse(_)
Reverse(seq) == IF Len(seq) = 0 THEN <<>> ELSE Append(Reverse(Tail(seq)), Head(seq))

getTransactions(limit) ==
    LET newestFirst == Reverse(chain)
    IN  SubSeq(newestFirst, 1, IF Len(newestFirst) < limit THEN Len(newestFirst) ELSE limit)

\* The bot's memory and files, as one value the synchronous code transforms.
BotState ==
    [approvalRecords |-> approvalRecords, pendingApprovals |-> pendingApprovals,
     seenTransactions |-> seenTransactions, stateFile |-> stateFile,
     auditFile |-> auditFile]

SetBotState(st) ==
    /\ approvalRecords' = st.approvalRecords
    /\ pendingApprovals' = st.pendingApprovals
    /\ seenTransactions' = st.seenTransactions
    /\ stateFile' = st.stateFile
    /\ auditFile' = st.auditFile

toPersistedRecord(record) ==
    [record EXCEPT !.amount = BigIntToString(record.amount)]

saveState(st) ==
    [st EXCEPT !.stateFile =
        [approvals |-> [id \in DOMAIN st.approvalRecords |->
                            toPersistedRecord(st.approvalRecords[id])],
         seenTransactions |-> st.seenTransactions]]

fromPersistedRecord(raw) ==
    [raw EXCEPT !.amount = BigInt(raw.amount)]

\* loadState that does not rebuild pendingApprovals.
loadState_NoPending(file) ==
    [approvalRecords |-> [id \in DOMAIN file.approvals |->
                             fromPersistedRecord(file.approvals[id])],
     pendingApprovals |-> <<>>,
     seenTransactions |-> file.seenTransactions]

\* The memory loadState builds from the state file in a fresh process.
loadState(file) ==
    LET records == [id \in DOMAIN file.approvals |->
                       fromPersistedRecord(file.approvals[id])]
        pendingIds == {id \in DOMAIN records : records[id].status = "pending"}
    IN  [approvalRecords |-> records,
         pendingApprovals |->
             [id \in pendingIds |->
                 [id |-> records[id].id, amount |-> records[id].amount,
                  target |-> records[id].target, txLt |-> records[id].txLt,
                  txHashHex |-> records[id].txHashHex]],
         seenTransactions |-> file.seenTransactions]

upsertRecord(st, record) ==
    saveState([st EXCEPT !.approvalRecords = Put(@, record.id, record)])

\* extra is a record with a subset of the fields ownerWallet, submitError.
setRecordStatus(st, approvalId, status, resolvedBy, extra) ==
    IF approvalId \notin DOMAIN st.approvalRecords THEN st
    ELSE LET existing == st.approvalRecords[approvalId]
             updated == [f \in DOMAIN existing |->
                            IF f = "status" THEN status
                            ELSE IF f = "resolvedAt" THEN clock
                            ELSE IF f = "resolvedBy" THEN resolvedBy
                            ELSE IF f \in DOMAIN extra THEN extra[f]
                            ELSE existing[f]]
         IN  saveState([st EXCEPT !.approvalRecords[approvalId] = updated])

AuditMatches(record, approval) ==
    /\ record.consumedByApprovalId = Undefined
    /\ record.contractAddress = CONTRACT_ADDRESS
    /\ record.targetAddress = approval.target
    /\ record.amountNano = BigIntToString(approval.amount)

\* claimMatchingRequestId that scans the records from the oldest on.
claimMatchingRequestId_OldestFirst(records, approval) ==
    IF \E i \in 1..Len(records) : AuditMatches(records[i], approval)
    THEN LET i == CHOOSE i \in 1..Len(records) :
                      /\ AuditMatches(records[i], approval)
                      /\ \A j \in 1..(i - 1) : ~AuditMatches(records[j], approval)
         IN  [auditFile |-> [records EXCEPT
                                ![i].consumedByApprovalId = approval.id,
                                ![i].status = "approval_pending",
                                ![i].statusUpdatedAt = clock],
              requestId |-> records[i].requestId]
    ELSE [auditFile |-> records, requestId |-> NoRequestId]

\* Returns the audit file after the claim and the request id claimed.
claimMatchingRequestId(records, approval) ==
    IF \E i \in 1..Len(records) : AuditMatches(records[i], approval)
    THEN LET i == CHOOSE i \in 1..Len(records) :
                      /\ AuditMatches(records[i], approval)
                      /\ \A j \in (i + 1)..Len(records) :
                             ~AuditMatches(records[j], approval)
         IN  [auditFile |-> [records EXCEPT
                                ![i].consumedByApprovalId = approval.id,
                                ![i].status = "approval_pending",
                                ![i].statusUpdatedAt = clock],
              requestId |-> records[i].requestId]
    ELSE [auditFile |-> records, requestId |-> NoRequestId]

\* updateRequestAuditStatus that falls back to the newest record when the
\* request id is not in the file.
updateRequestAuditStatus_NewestOnMiss(records, requestId, status) ==
    IF requestId = NoRequestId \/ records = <<>> THEN records
    ELSE IF \E i \in 1..Len(records) : records[i].requestId = requestId
    THEN LET i == CHOOSE i \in 1..Len(records) :
                      /\ records[i].requestId = requestId
                      /\ \A j \in (i + 1)..Len(records) :
                             records[j].requestId # requestId
         IN  [records EXCEPT ![i].status = status, ![i].statusUpdatedAt = clock]
    ELSE [records EXCEPT ![Len(records)].status = status,
                         ![Len(records)].statusUpdatedAt = clock]

updateRequestAuditStatus(records, requestId, status) ==
    IF requestId = NoRequestId THEN records
    ELSE IF \E i \in 1..Len(records) : records[i].requestId = requestId
    THEN LET i == CHOOSE i \in 1..Len(records) :
                      /\ records[i].requestId = requestId
                      /\ \A j \in (i + 1)..Len(records) :
                             records[j].requestId # requestId
         IN  [records EXCEPT ![i].status = status, ![i].statusUpdatedAt = clock]
    ELSE records

\* setRecordStatus followed by updateRequestAuditStatus with the request id
\* read from the record before the status change.
\* The states after each of the two calls, in the order of the calls.
ResolveSteps(st, approvalId, status, resolvedBy, extra) ==
    LET recordRequestId ==
            IF approvalId \in DOMAIN st.approvalRecords
            THEN st.approvalRecords[approvalId].requestId
            ELSE NoRequestId
        set == setRecordStatus(st, approvalId, status, resolvedBy, extra)
    IN  <<set,
          [set EXCEPT !.auditFile =
              updateRequestAuditStatus(@, recordRequestId, status)]>>

ResolveRecord(st, approvalId, status, resolvedBy, extra) ==
    ResolveSteps(st, approvalId, status, resolvedBy, extra)[2]

\* The part of notifyApprovalRequest for an approval without a record.
NotifyNew(st, approval) ==
    LET withPending == [st EXCEPT !.pendingApprovals = Put(@, approval.id, approval)]
             claim == claimMatchingRequestId(st.auditFile, approval)
             claimed == [withPending EXCEPT !.auditFile = claim.auditFile]
         IN  [st |-> upsertRecord(claimed,
                        [id |-> approval.id, amount |-> approval.amount,
                         target |-> approval.target, txLt |-> approval.txLt,
                         txHashHex |-> approval.txHashHex,
                         status |-> "pending", createdAt |-> clock,
                         requestId |-> claim.requestId,
                         resolvedAt |-> 0 - 1, resolvedBy |-> Undefined,
                         ownerWallet |-> Undefined, submitError |-> Undefined]),
              prompt |-> TRUE]

\* notifyApprovalRequest without the test for an existing record.
notifyApprovalRequest_NoExistingCheck(st, approval) == NotifyNew(st, approval)

\* notifyApprovalRequest up to its await of bot.api.sendMessage.  prompt is
\* TRUE when a message is about to be sent.
notifyApprovalRequest(st, approval) ==
    IF approval.id \in DOMAIN st.approvalRecords
    THEN [st |-> IF /\ st.approvalRecords[approval.id].status = "pending"
                    /\ approval.id \notin DOMAIN st.pendingApprovals
                 THEN [st EXCEPT !.pendingApprovals = Put(@, approval.id, approval)]
                 ELSE st,
          prompt |-> FALSE]
    ELSE NotifyNew(st, approval)

markSeen(st, transactions) ==
    saveState([st EXCEPT !.seenTransactions =
                  @ \cup {transactions[k].hash : k \in 1..Len(transactions)}])

ensureAuthorizedChat_NoCheck(chatId) == TRUE

\* TRUE when ensureAuthorizedChat returns, FALSE when it throws.
ensureAuthorizedChat(chatId) == chatId = OWNER_CHAT_ID

(***************************************************************************)
(* SpecBot: the poll loop and the callbackQuery handlers of the bot.  A    *)
(* handler runs without interruption between two awaits; at an await the   *)
(* other handlers and the poll loop may run.                               *)
(***************************************************************************)
Callbacks == 1..NumCallbacks
ChatInputs == {OWNER_CHAT_ID, OtherChatId}
ApprovalIdInputs == {approvalKeyFromTx(i, TxHashHex(i)) : i \in 1..NumTxs}
AuditAmountInputs == {fromNano(n) : n \in {1, MaxAmount}}
\* What the contract's daily limit leaves: a payment of MaxAmount is escalated.
ContractRemaining == MaxAmount - 1

MsgProcessing == "Processing approval..."
MsgNotFound == "Approval request not found or already handled."
MsgApprovalFailed == "Approval failed."
MsgApproved == "Approved and submitted"
MsgRejected == "Request rejected."
MsgAlreadyHandled == "Request already handled."
MsgRejectFailed == "Reject failed."
MsgAlready(status) == "Request already " \o status \o "."

ErrUnauthorizedChat == "Unauthorized chat"
ErrTelegram == "telegram request failed"
ErrOwnerWallet == "Owner wallet is not deployed"

\* The bodies of the interval callback that may be in progress at once: the
\* timer fires whether or not the previous body has returned.
Ticks == 1..NumTicks
IdleTick == [pc |-> "idle", batch |-> <<>>, i |-> 0]
\* bootSeen: the hashes bootstrapSeenTransactions has marked seen so far.
IdlePoll == [pc |-> "boot", bootSeen |-> {}, ticks |-> [t \in Ticks |-> IdleTick]]
IdleCallback ==
    [pc |-> "idle", kind |-> "", chat |-> "", approvalId |-> <<>>, answer |-> ""]

RemoveKey(f, k) == [x \in DOMAIN f \ {k} |-> f[x]]

\* The for loop of the poll tick from batch[i] on, up to the next await of
\* sendMessage or, when the loop ends, through markSeen.
RECURSIVE PollLoop(_, _, _)
PollLoop(st, batch, i) ==
    IF i > Len(batch)
    THEN [st |-> markSeen(st, batch), pc |-> "idle", batch |-> <<>>, i |-> 0]
    ELSE LET approval == parseApprovalFromTransaction(batch[i], st.seenTransactions)
         IN  IF approval = NoApproval THEN PollLoop(st, batch, i + 1)
             ELSE LET notified == notifyApprovalRequest(st, approval)
                  IN  IF notified.prompt
                      THEN [st |-> notified.st, pc |-> "sending",
                            batch |-> batch, i |-> i]
                      ELSE PollLoop(notified.st, batch, i + 1)

InitBot ==
    /\ clock = 0
    /\ envelopes = emptyBrokerState
    /\ last = NoCall
    /\ brokerFile = emptyBrokerState
    /\ pay = <<>>
    /\ config = DefaultConfig
    /\ facilitator = IdleFacilitator
    /\ auditFile = <<>>
    /\ approvalRecords = <<>>
    /\ pendingApprovals = <<>>
    /\ seenTransactions = {}
    /\ stateFile = [approvals |-> <<>>, seenTransactions |-> {}]
    /\ chain = <<>>
    /\ poll = IdlePoll
    /\ cb = [c \in Callbacks |-> IdleCallback]
    /\ sends = {}
    /\ prompts = <<>>
    /\ auditIo = <<>>

BotFrame == UNCHANGED <<envelopes, last, brokerFile, pay, config, facilitator, auditIo>>

\* The contract processes a payment; when it is over the limit it emits an
\* ApprovalRequest.
ChainTransaction(escalated) ==
    /\ Len(chain) < NumTxs
    /\ chain' = Append(chain, Transaction(Len(chain) + 1, escalated))
    /\ UNCHANGED <<clock, auditFile, approvalRecords, pendingApprovals,
                   seenTransactions, stateFile, poll, cb, sends, prompts>>
    /\ BotFrame

\* The MCP server process appends the audit record of a payment it sent.
McpAppendAudit(amountInTon) ==
    LET amountNano == toNano(amountInTon)
        approvalExpected == amountNano > ContractRemaining
    IN
    /\ Len(auditFile) < NumAudit
    /\ auditFile' = appendAuditRecord(auditFile,
           [requestId |-> RequestIdOf(Len(auditFile) + 1),
            contractAddress |-> ContractAddress,
            targetAddress |-> TargetAddress,
            amountInTon |-> amountInTon,
            amountNano |-> BigIntToString(amountNano),
            createdAt |-> clock,
            status |-> IF approvalExpected THEN "approval_pending" ELSE "submitted",
            approvalExpected |-> approvalExpected,
            consumedByApprovalId |-> Undefined,
            statusUpdatedAt |-> 0 - 1])
    /\ UNCHANGED <<clock, approvalRecords, pendingApprovals, seenTransactions,
                   stateFile, chain, poll, cb, sends, prompts>>
    /\ BotFrame

BotClock ==
    /\ clock < BotMaxTime
    /\ clock' = clock + 1
    /\ UNCHANGED <<auditFile, botVars>>
    /\ BotFrame

\* monitorContract up to setInterval.
Bootstrap ==
    /\ poll.pc = "boot"
    /\ IF seenTransactions = {} /\ DOMAIN pendingApprovals = {}
       THEN LET recent == getTransactions(BOOTSTRAP_HISTORY_LIMIT) IN
            /\ SetBotState(markSeen(BotState, recent))
            /\ poll' = [poll EXCEPT !.pc = "running",
                            !.bootSeen = @ \cup {recent[k].hash : k \in 1..Len(recent)}]
       ELSE /\ SetBotState(BotState)
            /\ poll' = [poll EXCEPT !.pc = "running"]
    /\ UNCHANGED <<clock, chain, cb, sends, prompts>>
    /\ BotFrame

\* A tick of the interval: the transactions are fetched and processed up to
\* the first prompt to send, or to the end of the batch.
PollTick(t) ==
    LET run == PollLoop(BotState, getTransactions(PollLimit), 1) IN
    /\ poll.pc = "running"
    /\ poll.ticks[t].pc = "idle"
    /\ \A u \in Ticks : u < t => poll.ticks[u].pc # "idle"
    /\ SetBotState(run.st)
    /\ poll' = [poll EXCEPT !.ticks[t] = [pc |-> run.pc, batch |-> run.batch,
                                          i |-> run.i]]
    /\ UNCHANGED <<clock, chain, cb, sends, prompts>>
    /\ BotFrame

\* The approval id of the prompt a tick is sending.
PromptOf(tick) == parseApprovalFromTransaction(tick.batch[tick.i], {}).id

\* sendMessage returned: the loop goes on with the next transaction.
PollPromptSent(t) ==
    LET tick == poll.ticks[t]
        run == PollLoop(BotState, tick.batch, tick.i + 1)
    IN
    /\ tick.pc = "sending"
    /\ prompts' = Append(prompts, PromptOf(tick))
    /\ SetBotState(run.st)
    /\ poll' = [poll EXCEPT !.ticks[t] = [pc |-> run.pc, batch |-> run.batch,
                                          i |-> run.i]]
    /\ UNCHANGED <<clock, chain, cb, sends>>
    /\ BotFrame

\* sendMessage threw: the tick's catch logs the error; markSeen is skipped.
PollPromptFailed(t) ==
    /\ poll.ticks[t].pc = "sending"
    /\ poll' = [poll EXCEPT !.ticks[t] = IdleTick]
    /\ UNCHANGED <<clock, auditFile, approvalRecords, pendingApprovals,
                   seenTransactions, stateFile, chain, cb, sends, prompts>>
    /\ BotFrame

\* A callback query of the c-th button press arrives.
Arrives(c) ==
    /\ cb[c].pc = "idle"
    /\ \A b \in Callbacks : b < c => cb[b].pc # "idle"

\* The handler returned: its locals are gone, its last answer stays on the
\* user's screen.
Done(c, answer) == [cb EXCEPT ![c] = [IdleCallback EXCEPT !.pc = "done",
                                                          !.answer = answer]]

\* A catch block that resolves the record as approved.
ApproveCatch_MarksApproved(st, c, approvalId, chat, message) ==
    ResolveRecord(st, approvalId, "approved", chat, [submitError |-> message])

\* The catch block of the approve handler, up to its own awaits.
ApproveCatch(st, c, approvalId, chat, message) ==
    ResolveRecord(st, approvalId, "failed", chat, [submitError |-> message])

ApproveBegin(c, chat, approvalId) ==
    LET call == [cb EXCEPT ![c].kind = "approve", ![c].chat = chat,
                           ![c].approvalId = approvalId]
        known == approvalId \in DOMAIN approvalRecords
    IN
    /\ Arrives(c)
    /\ IF ~ensureAuthorizedChat(chat)
       THEN /\ SetBotState(ApproveCatch(BotState, c, approvalId, chat,
                                        ErrUnauthorizedChat))
            /\ cb' = Done(c, MsgApprovalFailed)
       ELSE /\ SetBotState(BotState)
            /\ cb' = IF known /\ approvalRecords[approvalId].status # "pending"
                     THEN [call EXCEPT ![c].pc = "answering",
                              ![c].answer = MsgAlready(approvalRecords[approvalId].status)]
                     ELSE IF approvalId \notin DOMAIN pendingApprovals
                     THEN [call EXCEPT ![c].pc = "answering", ![c].answer = MsgNotFound]
                     ELSE [call EXCEPT ![c].pc = "processing", ![c].answer = MsgProcessing]
    /\ UNCHANGED <<clock, chain, poll, sends, prompts>>
    /\ BotFrame

\* answerCallbackQuery of an early return completes.
ApproveAnswered(c, ok) ==
    /\ cb[c].pc = "answering"
    /\ IF ok
       THEN /\ SetBotState(BotState)
            /\ cb' = Done(c, cb[c].answer)
       ELSE /\ SetBotState(ApproveCatch(BotState, c, cb[c].approvalId, cb[c].chat,
                                        ErrTelegram))
            /\ cb' = Done(c, MsgApprovalFailed)
    /\ UNCHANGED <<clock, chain, poll, sends, prompts>>
    /\ BotFrame

\* From the await of answerCallbackQuery("Processing approval...") to the
\* call of contract.send in submitOwnerApproval.  Every await on the way
\* (the answer, getClient, getOwnerSender) may throw instead; the catch block
\* then runs with that error's message, of which one is modelled.
ApproveProceed(c, outcome) ==
    /\ cb[c].pc = "processing"
    /\ IF outcome = "send"
       THEN /\ sends' = sends \cup {[approvalId |-> cb[c].approvalId, cb |-> c,
                                     chat |-> cb[c].chat, result |-> "inFlight"]}
            /\ cb' = [cb EXCEPT ![c].pc = "sent"]
            /\ SetBotState(BotState)
       ELSE /\ SetBotState(ApproveCatch(BotState, c, cb[c].approvalId, cb[c].chat,
                                        outcome))
            /\ cb' = Done(c, MsgApprovalFailed)
            /\ UNCHANGED sends
    /\ UNCHANGED <<clock, chain, poll, prompts>>
    /\ BotFrame

\* contract.send returned or threw.
ApproveSendReturned(c, ok) ==
    LET approvalId == cb[c].approvalId
        deleted == [BotState EXCEPT !.pendingApprovals = RemoveKey(@, approvalId)]
    IN
    /\ cb[c].pc = "sent"
    /\ IF ok
       THEN /\ SetBotState(ResolveRecord(deleted, approvalId, "approved", cb[c].chat,
                                         [ownerWallet |-> OwnerWallet]))
            /\ cb' = [cb EXCEPT ![c].pc = "replying"]
       ELSE /\ SetBotState(ApproveCatch(BotState, c, approvalId, cb[c].chat,
                                        ErrChainSubmission))
            /\ cb' = Done(c, MsgApprovalFailed)
    /\ sends' = {IF s.cb = c
                 THEN [s EXCEPT !.result = IF ok THEN "ok" ELSE "failed"]
                 ELSE s : s \in sends}
    /\ UNCHANGED <<clock, chain, poll, prompts>>
    /\ BotFrame

\* ctx.reply after the approval returned or threw.
ApproveReplied(c, ok) ==
    /\ cb[c].pc = "replying"
    /\ IF ok
       THEN /\ SetBotState(BotState)
            /\ cb' = Done(c, MsgApproved)
       ELSE /\ SetBotState(ApproveCatch(BotState, c, cb[c].approvalId, cb[c].chat,
                                        ErrTelegram))
            /\ cb' = Done(c, MsgApprovalFailed)
    /\ UNCHANGED <<clock, chain, poll, sends, prompts>>
    /\ BotFrame

\* The reject handler changes state before its first await only.
Reject(c, chat, approvalId) ==
    LET known == approvalId \in DOMAIN approvalRecords
        removed == approvalId \in DOMAIN pendingApprovals
        deleted == [BotState EXCEPT !.pendingApprovals = RemoveKey(@, approvalId)]
    IN
    /\ Arrives(c)
    /\ IF ~ensureAuthorizedChat(chat)
       THEN /\ SetBotState(BotState)
            /\ cb' = Done(c, MsgRejectFailed)
       ELSE IF known /\ approvalRecords[approvalId].status # "pending"
       THEN /\ SetBotState(BotState)
            /\ cb' = Done(c, MsgAlready(approvalRecords[approvalId].status))
       ELSE IF removed
       THEN /\ SetBotState(ResolveRecord(deleted, approvalId, "rejected", chat, <<>>))
            /\ cb' = Done(c, MsgRejected)
       ELSE /\ SetBotState(BotState)
            /\ cb' = Done(c, MsgAlreadyHandled)
    /\ UNCHANGED <<clock, chain, poll, sends, prompts>>
    /\ BotFrame

\* The steps of the bot process with one tick in progress at a time.
BotStep ==
    \/ Bootstrap
    \/ PollTick(1)
    \/ PollPromptSent(1)
    \/ PollPromptFailed(1)
    \/ \E c \in Callbacks, chat \in ChatInputs, id \in ApprovalIdInputs :
           ApproveBegin(c, chat, id)
    \/ \E c \in Callbacks, ok \in BOOLEAN : ApproveAnswered(c, ok)
    \/ \E c \in Callbacks, outcome \in {"send", ErrOwnerWallet} :
           ApproveProceed(c, outcome)
    \/ \E c \in Callbacks, ok \in BOOLEAN : ApproveSendReturned(c, ok)
    \/ \E c \in Callbacks, ok \in BOOLEAN : ApproveReplied(c, ok)
    \/ \E c \in Callbacks, chat \in ChatInputs, id \in ApprovalIdInputs :
           Reject(c, chat, id)

NextBot ==
    \/ BotClock
    \/ \E escalated \in BOOLEAN : ChainTransaction(escalated)
    \/ \E amountInTon \in AuditAmountInputs : McpAppendAudit(amountInTon)
    \/ BotStep

SpecBot == InitBot /\ [][NextBot]_vars

(***************************************************************************)
(* Process stop and restart.  The process stops between two synchronous    *)
(* sections; main() then runs again: loadState, bot.start, monitorContract.*)
(* Handlers and ticks in progress are gone.  A sendMessage in flight at    *)
(* the stop has reached the owner or not.                                  *)
(***************************************************************************)
SendingTicks == {t \in Ticks : poll.ticks[t].pc = "sending"}

RECURSIVE PromptsInFlight(_)
PromptsInFlight(ts) ==
    IF ts = {} THEN <<>>
    ELSE LET t == CHOOSE t \in ts : \A u \in ts : t <= u
         IN  <<PromptOf(poll.ticks[t])>> \o PromptsInFlight(ts \ {t})

Restart(delivered) ==
    LET loaded == loadState(stateFile) IN
    /\ approvalRecords' = loaded.approvalRecords
    /\ pendingApprovals' = loaded.pendingApprovals
    /\ seenTransactions' = loaded.seenTransactions
    /\ poll' = [poll EXCEPT !.pc = "boot", !.ticks = [t \in Ticks |-> IdleTick]]
    /\ cb' = [c \in Callbacks |->
                 IF cb[c].pc \in {"idle", "done"} THEN cb[c]
                 ELSE [IdleCallback EXCEPT !.pc = "done", !.answer = cb[c].answer]]
    /\ prompts' = IF delivered THEN prompts \o PromptsInFlight(SendingTicks)
                  ELSE prompts
    /\ UNCHANGED <<clock, auditFile, stateFile, chain, sends>>
    /\ BotFrame

(***************************************************************************)
(* SpecPoll: the poll loop alone, with overlapping ticks and restarts.     *)
(***************************************************************************)
NextPoll ==
    \/ BotClock
    \/ \E escalated \in BOOLEAN : ChainTransaction(escalated)
    \/ \E amountInTon \in AuditAmountInputs : McpAppendAudit(amountInTon)
    \/ Bootstrap
    \/ \E t \in Ticks : PollTick(t)
    \/ \E t \in Ticks : PollPromptSent(t)
    \/ \E t \in Ticks : PollPromptFailed(t)
    \/ \E delivered \in BOOLEAN : Restart(delivered)

SpecPoll == InitBot /\ [][NextPoll]_vars

(***************************************************************************)
(* SpecCrash: the bot with one tick at a time, the callback handlers and   *)
(* restarts, all at one instant and without the MCP server's audit file.   *)
(***************************************************************************)
NextCrash ==
    \/ \E escalated \in BOOLEAN : ChainTransaction(escalated)
    \/ BotStep
    \/ \E delivered \in BOOLEAN : Restart(delivered)

SpecCrash == InitBot /\ [][NextCrash]_vars

\* C1: for every approval identifier the bot performs at most one
\* ExecutePayment submission (contract.send of submitOwnerApproval) over the
\* whole execution, whatever the interleaving of the callback handlers.
AtMostOneSubmission ==
    \A id \in ApprovalIdInputs :
        Cardinality({s \in sends : s.approvalId = id}) <= 1

\* C2: every approval record is created with status pending, no record is
\* dropped, and a record that is approved, rejected or failed never changes
\* status again (so a status changes at most once, from pending).
ApprovalStatusMonotone ==
    [][/\ \A id \in DOMAIN approvalRecords' \ DOMAIN approvalRecords :
              approvalRecords'[id].status = "pending"
       /\ \A id \in DOMAIN approvalRecords :
              /\ id \in DOMAIN approvalRecords'
              /\ approvalRecords'[id].status \in
                     {"pending", "approved", "rejected", "failed"}
              /\ approvalRecords[id].status # "pending"
                     => approvalRecords'[id].status = approvalRecords[id].status]_vars

\* C3: an approve or reject action from a chat other than the owner chat
\* never results in a submission: every contract.send was issued by a handler
\* whose chat passed ensureAuthorizedChat.
UnauthorizedChatNeverSubmits ==
    \A s \in sends : s.chat = OWNER_CHAT_ID

\* An approve from another chat has been handled for a request the owner's
\* approve submitted.
UnauthorizedApproveOfSubmittedRequest ==
    \E s \in sends :
        /\ s.approvalId \in DOMAIN approvalRecords
        /\ approvalRecords[s.approvalId].submitError = ErrUnauthorizedChat
        /\ approvalRecords[s.approvalId].resolvedBy = OtherChatId

(***************************************************************************)
(* Event detection.                                                        *)
(***************************************************************************)
\* The approval id of the i-th transaction of the contract.
ApprovalIdOfTx(i) == approvalKeyFromTx(i, TxHashHex(i))

PromptCount(id) == Cardinality({k \in 1..Len(prompts) : prompts[k] = id})

\* The prompts sent and being sent for an approval id.
PromptsSending(id) ==
    Cardinality({t \in Ticks : /\ poll.ticks[t].pc = "sending"
                               /\ PromptOf(poll.ticks[t]) = id})

\* C12: for every transaction hash at most one prompt is sent to the owner
\* (counting the sends in progress), and its approval record is created at
\* most once: a record, once created, is never dropped or created anew, over
\* overlapping ticks and restarts.
IdempotentEventDetection ==
    /\ [](\A i \in 1..NumTxs :
             PromptCount(ApprovalIdOfTx(i)) + PromptsSending(ApprovalIdOfTx(i)) <= 1)
    /\ [][\A id \in DOMAIN approvalRecords :
              /\ id \in DOMAIN approvalRecords'
              /\ approvalRecords'[id].createdAt = approvalRecords[id].createdAt
              /\ approvalRecords'[id].txHashHex = approvalRecords[id].txHashHex]_vars

\* Witness of C12: the owner has the prompt of a transaction that is not in
\* the seen set while no tick is in progress: the next tick parses it again.
PromptedTransactionUnseen ==
    /\ poll.pc = "running"
    /\ \A t \in Ticks : poll.ticks[t].pc = "idle"
    /\ \E i \in 1..Len(chain) :
          /\ PromptCount(ApprovalIdOfTx(i)) = 1
          /\ chain[i].hash \notin seenTransactions

\* C13: for every approval record the poll loop created, the owner is
\* notified exactly once: the prompt has been sent once or is being sent,
\* also after a failed send attempt and after a stop between the save of the
\* record and the send.
NotifiedExactlyOnce ==
    \A id \in DOMAIN approvalRecords :
        PromptCount(id) + PromptsSending(id) = 1

(***************************************************************************)
(* Restarts.                                                               *)
(***************************************************************************)
RestartStep == \E delivered \in BOOLEAN : Restart(delivered)

\* A tick starts sending the prompt of a transaction in this step.
StartsPrompt(t) ==
    /\ poll'.ticks[t].pc = "sending"
    /\ \/ poll.ticks[t].pc # "sending"
       \/ poll'.ticks[t].i # poll.ticks[t].i

CycleEnds(t) ==
    /\ poll'.pc = "running"
    /\ poll'.ticks[t].pc = "idle"
    /\ poll.ticks[t].pc = "sending" \/ PollTick(t)

\* The batch of the cycle of tick t that ends in this step.
CycleBatch(t) ==
    IF poll.ticks[t].pc = "sending" THEN poll.ticks[t].batch
    ELSE getTransactions(PollLimit)

\* C15: after every poll cycle every transaction hash of the cycle's batch
\* is in the persisted seen set.
EveryCycleMarksBatchSeen ==
    [][\A t \in Ticks :
          CycleEnds(t) =>
              \A k \in 1..Len(CycleBatch(t)) :
                  CycleBatch(t)[k].hash \in stateFile'.seenTransactions]_vars

(***************************************************************************)
(* Bootstrap.                                                              *)
(***************************************************************************)
\* C16: bootstrap marks transactions seen only when the seen set and the
\* pending map are both empty at startup, and what it marks is the recent
\* history; no approval record is created and no prompt is sent for a
\* transaction bootstrap has marked seen.
BootstrapMarksWithoutNotifying ==
    [][/\ (poll.pc = "boot" /\ poll'.pc = "running"
                            /\ seenTransactions' # seenTransactions)
            => /\ seenTransactions = {}
               /\ DOMAIN pendingApprovals = {}
               /\ seenTransactions' =
                      {getTransactions(BOOTSTRAP_HISTORY_LIMIT)[k].hash :
                          k \in 1..Len(getTransactions(BOOTSTRAP_HISTORY_LIMIT))}
       /\ \A id \in DOMAIN approvalRecords' \ DOMAIN approvalRecords :
              approvalRecords'[id].txHashHex \notin poll.bootSeen
       /\ \A t \in Ticks :
              StartsPrompt(t) =>
                  poll'.ticks[t].batch[poll'.ticks[t].i].hash \notin poll.bootSeen]_vars

\* Witness of C16: bootstrap marked a transaction with an ApprovalRequest
\* seen, and a tick that ran afterwards created the record of a later
\* transaction and none for the marked one.
BootstrappedRequestIgnored ==
    \E i, j \in 1..Len(chain) :
        /\ ParseOutMessages(chain[i]) # NoApproval
        /\ chain[i].hash \in poll.bootSeen
        /\ ApprovalIdOfTx(i) \notin DOMAIN approvalRecords
        /\ ApprovalIdOfTx(j) \in DOMAIN approvalRecords

(***************************************************************************)
(* Decisions on resolved records.                                          *)
(***************************************************************************)
ResolvedStatuses == {"approved", "rejected", "failed"}

\* The answers that name a status.
AlreadyAnswers == {MsgAlready(status) : status \in ResolvedStatuses}

\* C17: an approve or reject of the owner that finds the record approved,
\* rejected or failed is answered with the message naming that status, makes
\* no submission and leaves the record as it is, from the arrival of the
\* action to the return of its handler.
ResolvedRecordUntouched ==
    [][\A c \in Callbacks :
          /\ (cb[c].pc = "idle" /\ cb'[c].answer \in AlreadyAnswers)
                => /\ approvalRecords' = approvalRecords
                   /\ sends' = sends
          /\ (cb[c].pc = "answering" /\ cb[c].answer \in AlreadyAnswers
                                     /\ cb'[c].pc = "done")
                => /\ cb'[c].answer = cb[c].answer
                   /\ approvalRecords' = approvalRecords
                   /\ sends' = sends]_vars

(***************************************************************************)
(* Order of the writes of an approve.                                      *)
(***************************************************************************)
\* The audit records linked to an approval record are advanced to status.
AuditAdvanced(st, approvalId, status) ==
    \A k \in 1..Len(st.auditFile) :
        st.auditFile[k].requestId = st.approvalRecords[approvalId].requestId
            => st.auditFile[k].status = status

\* The states the approve of callback c goes through once contract.send has
\* returned, one per write.
ApproveWrites(c) ==
    ResolveSteps([BotState EXCEPT !.pendingApprovals = RemoveKey(@, cb[c].approvalId)],
                 cb[c].approvalId, "approved", cb[c].chat,
                 [ownerWallet |-> OwnerWallet])

\* C18: on an owner approve whose submission returned, the linked audit
\* record is advanced to approved before the approval record is resolved: at
\* no point of the handler is the approval record approved while its audit
\* record is not.
AuditAdvancedBeforeRecordResolved ==
    [][\A c \in Callbacks :
          (/\ cb[c].pc = "sent"
           /\ cb'[c].pc = "replying"
           /\ cb[c].approvalId \in DOMAIN approvalRecords)
          => \A k \in 1..Len(ApproveWrites(c)) :
                 ApproveWrites(c)[k].approvalRecords[cb[c].approvalId].status = "approved"
                     => AuditAdvanced(ApproveWrites(c)[k], cb[c].approvalId, "approved")]_vars

(***************************************************************************)
(* What the resolved statuses tell.                                        *)
(***************************************************************************)
\* C19: a record is approved only if a submission for its approval was made
\* and returned without error; and a stop while a submission is in flight
\* leaves the status of its record as it was (pending stays pending).
ApprovedOnlyAfterSubmission ==
    /\ [](\A id \in DOMAIN approvalRecords :
             approvalRecords[id].status = "approved"
                 => \E s \in sends : s.approvalId = id /\ s.result = "ok")
    /\ [][RestartStep =>
             \A c \in Callbacks :
                 (cb[c].pc = "sent" /\ cb[c].approvalId \in DOMAIN approvalRecords)
                     => approvalRecords'[cb[c].approvalId].status
                            = approvalRecords[cb[c].approvalId].status]_vars

\* Witness of C19: the process stopped while a submission was in flight (its
\* handler is gone, its result was never seen) and the record is pending.
StoppedWithSubmissionInFlight ==
    \E s \in sends :
        /\ s.result = "inFlight"
        /\ cb[s.cb].pc = "done"
        /\ s.approvalId \in DOMAIN approvalRecords
        /\ approvalRecords[s.approvalId].status = "pending"

\* C20: a record is failed only if an approve of the owner attempted the
\* submission for its approval and that submission failed.
FailedOnlyAfterFailedSubmission ==
    \A id \in DOMAIN approvalRecords :
        approvalRecords[id].status = "failed"
            => \E s \in sends : /\ s.approvalId = id
                                /\ s.chat = OWNER_CHAT_ID
                                /\ s.result = "failed"

(***************************************************************************)
(* Who changes an approval record.                                         *)
(***************************************************************************)
\* This step is a step of the handler of an approve or reject the owner sent
\* for the approval id.
OwnerDecisionStep(id) ==
    \E c \in Callbacks :
        \/ ApproveBegin(c, OWNER_CHAT_ID, id)
        \/ Reject(c, OWNER_CHAT_ID, id)
        \/ /\ cb[c].approvalId = id
           /\ cb[c].chat = OWNER_CHAT_ID
           /\ \/ \E ok \in BOOLEAN : ApproveAnswered(c, ok)
              \/ \E outcome \in {"send", ErrOwnerWallet} : ApproveProceed(c, outcome)
              \/ \E ok \in BOOLEAN : ApproveSendReturned(c, ok)
              \/ \E ok \in BOOLEAN : ApproveReplied(c, ok)

\* C21: approval records are changed only by an owner decision and never
\* deleted: every step that changes an existing record is a step of the
\* handler of the owner's approve or reject of that record; a poll tick or
\* bootstrap leaves every existing record as it is, and a tick claims an
\* audit record only when it creates a record.
RecordsChangedOnlyByOwnerDecision ==
    [][/\ \A id \in DOMAIN approvalRecords :
              /\ id \in DOMAIN approvalRecords'
              /\ approvalRecords'[id] # approvalRecords[id] => OwnerDecisionStep(id)
       /\ (DOMAIN approvalRecords' = DOMAIN approvalRecords
              /\ \E t \in Ticks : PollTick(t) \/ PollPromptSent(t))
             => auditFile' = auditFile]_vars

(***************************************************************************)
(* SpecAudit: the audit file, which the MCP server process and the bot     *)
(* process each read, change in memory and write back.  Inside a process   *)
(* the read and the write are in one synchronous section; the other        *)
(* process may run between them.                                           *)
(***************************************************************************)
OtherAddress == "EQ-other"

\* contract address, target address and amount of the payments the MCP
\* server submits: the one the approvals below match, and three that differ
\* from it in one field.
AuditShapes ==
    {<<ContractAddress, TargetAddress, fromNano(MaxAmount)>>,
     <<OtherAddress, TargetAddress, fromNano(MaxAmount)>>,
     <<ContractAddress, OtherAddress, fromNano(MaxAmount)>>,
     <<ContractAddress, TargetAddress, fromNano(1)>>}

ApprovalInputs == {ParseOutMessages(Transaction(i, TRUE)) : i \in 1..NumTxs}

\* A record of an earlier run whose audit record is no longer in the file.
LegacyRequestId == RequestIdOf(0)
LegacyApproval == ParseOutMessages(Transaction(NumTxs + 1, TRUE))
LegacyRecord ==
    [id |-> LegacyApproval.id, amount |-> LegacyApproval.amount,
     target |-> LegacyApproval.target, txLt |-> LegacyApproval.txLt,
     txHashHex |-> LegacyApproval.txHashHex,
     status |-> "pending", createdAt |-> 0,
     requestId |-> LegacyRequestId,
     resolvedAt |-> 0 - 1, resolvedBy |-> Undefined,
     ownerWallet |-> Undefined, submitError |-> Undefined]

IdleIo == [pc |-> "idle", op |-> "", records |-> <<>>, record |-> <<>>,
           approvalId |-> <<>>, status |-> ""]
IdleAuditIo == [mcp |-> IdleIo, bot |-> IdleIo, appended |-> 0]

NoAuditCall ==
    [op |-> "none", before |-> <<>>, after |-> <<>>, requestId |-> NoRequestId,
     approval |-> NoApproval, status |-> "", wrote |-> FALSE]

InitAudit ==
    /\ clock = 0
    /\ envelopes = emptyBrokerState
    /\ last = NoAuditCall
    /\ InitNoPay
    /\ auditFile = <<>>
    /\ approvalRecords = Put(<<>>, LegacyRecord.id, LegacyRecord)
    /\ pendingApprovals = Put(<<>>, LegacyApproval.id, LegacyApproval)
    /\ seenTransactions = {}
    /\ stateFile = saveState([approvalRecords |-> Put(<<>>, LegacyRecord.id, LegacyRecord),
                              pendingApprovals |-> <<>>, seenTransactions |-> {},
                              stateFile |-> <<>>, auditFile |-> <<>>]).stateFile
    /\ chain = <<>>
    /\ poll = <<>>
    /\ cb = <<>>
    /\ sends = {}
    /\ prompts = <<>>
    /\ auditIo = IdleAuditIo

AuditFrame ==
    UNCHANGED <<clock, envelopes, brokerFile, pay, config, facilitator, chain, poll, cb, sends,
                prompts>>

BotMemoryUnchanged ==
    UNCHANGED <<approvalRecords, pendingApprovals, seenTransactions, stateFile>>

\* submitPreparedPayment reaches appendAuditRecord: readAuditRecords.
McpRead(shape) ==
    LET amountNano == toNano(shape[3])
        approvalExpected == amountNano > ContractRemaining
    IN
    /\ auditIo.mcp.pc = "idle"
    /\ auditIo.appended < MaxAuditLen
    /\ auditIo' = [auditIo EXCEPT
          !.appended = @ + 1,
          !.mcp = [IdleIo EXCEPT
              !.pc = "read",
              !.op = "append",
              !.records = auditFile,
              !.record =
                  [requestId |-> RequestIdOf(auditIo.appended + 1),
                   contractAddress |-> shape[1],
                   targetAddress |-> shape[2],
                   amountInTon |-> shape[3],
                   amountNano |-> BigIntToString(amountNano),
                   createdAt |-> clock,
                   status |-> IF approvalExpected THEN "approval_pending"
                              ELSE "submitted",
                   approvalExpected |-> approvalExpected,
                   consumedByApprovalId |-> Undefined,
                   statusUpdatedAt |-> 0 - 1]]]
    /\ UNCHANGED <<auditFile, last>>
    /\ BotMemoryUnchanged
    /\ AuditFrame

\* records.push(record); saveAuditRecords(records).
McpWrite ==
    /\ auditIo.mcp.pc = "read"
    /\ auditFile' = appendAuditRecord(auditIo.mcp.records, auditIo.mcp.record)
    /\ auditIo' = [auditIo EXCEPT !.mcp = IdleIo]
    /\ UNCHANGED last
    /\ BotMemoryUnchanged
    /\ AuditFrame

\* notifyApprovalRequest for an approval without a record, up to
\* readRequestAuditRecords in claimMatchingRequestId.
BotClaimRead(approval) ==
    /\ auditIo.bot.pc = "idle"
    /\ approval.id \notin DOMAIN approvalRecords
    /\ auditIo' = [auditIo EXCEPT
          !.bot = [IdleIo EXCEPT !.pc = "read", !.op = "claim",
                                 !.records = auditFile,
                                 !.approvalId = approval.id]]
    /\ UNCHANGED <<auditFile, last>>
    /\ BotMemoryUnchanged
    /\ AuditFrame

\* The rest of claimMatchingRequestId and upsertRecord.
BotClaimWrite ==
    LET io == auditIo.bot
        approval == CHOOSE a \in ApprovalInputs : a.id = io.approvalId
        claim == claimMatchingRequestId(io.records, approval)
        wrote == claim.requestId # NoRequestId
        st == NotifyNew([BotState EXCEPT !.auditFile = io.records], approval).st
    IN
    /\ io.pc = "read"
    /\ io.op = "claim"
    /\ auditFile' = IF wrote THEN claim.auditFile ELSE auditFile
    /\ approvalRecords' = st.approvalRecords
    /\ pendingApprovals' = st.pendingApprovals
    /\ stateFile' = st.stateFile
    /\ auditIo' = [auditIo EXCEPT !.bot = IdleIo]
    /\ last' = [op |-> "claim", before |-> io.records, after |-> claim.auditFile,
                requestId |-> claim.requestId, approval |-> approval,
                status |-> "", wrote |-> wrote]
    /\ UNCHANGED seenTransactions
    /\ AuditFrame

\* The statuses a handler may give a record: failed from the catch block at
\* any time, approved and rejected for a pending record.
ResolveInputs(id) ==
    IF approvalRecords[id].status = "pending" THEN ResolvedStatuses ELSE {"failed"}

\* A handler resolves a record: setRecordStatus, then updateRequestAuditStatus
\* up to readRequestAuditRecords (not reached without a request id).
BotResolveRead(id, status) ==
    LET requestId == approvalRecords[id].requestId
        st == setRecordStatus([BotState EXCEPT !.pendingApprovals = RemoveKey(@, id)],
                              id, status, OWNER_CHAT_ID, <<>>)
    IN
    /\ auditIo.bot.pc = "idle"
    /\ id \in DOMAIN approvalRecords
    /\ status \in ResolveInputs(id)
    /\ approvalRecords' = st.approvalRecords
    /\ pendingApprovals' = st.pendingApprovals
    /\ stateFile' = st.stateFile
    /\ IF requestId = NoRequestId
       THEN /\ auditIo' = auditIo
            /\ last' = [op |-> "update", before |-> auditFile, after |-> auditFile,
                        requestId |-> requestId, approval |-> NoApproval,
                        status |-> status, wrote |-> FALSE]
       ELSE /\ auditIo' = [auditIo EXCEPT
                  !.bot = [IdleIo EXCEPT !.pc = "read", !.op = "update",
                                         !.records = auditFile,
                                         !.record = requestId,
                                         !.approvalId = id,
                                         !.status = status]]
            /\ UNCHANGED last
    /\ UNCHANGED <<auditFile, seenTransactions>>
    /\ AuditFrame

\* The rest of updateRequestAuditStatus.
BotResolveWrite ==
    LET io == auditIo.bot
        updated == updateRequestAuditStatus(io.records, io.record, io.status)
        wrote == \E k \in 1..Len(io.records) : io.records[k].requestId = io.record
    IN
    /\ io.pc = "read"
    /\ io.op = "update"
    /\ auditFile' = IF wrote THEN updated ELSE auditFile
    /\ auditIo' = [auditIo EXCEPT !.bot = IdleIo]
    /\ last' = [op |-> "update", before |-> io.records, after |-> updated,
                requestId |-> io.record, approval |-> NoApproval,
                status |-> io.status, wrote |-> wrote]
    /\ BotMemoryUnchanged
    /\ AuditFrame

NextAudit ==
    \/ \E shape \in AuditShapes : McpRead(shape)
    \/ McpWrite
    \/ \E approval \in ApprovalInputs : BotClaimRead(approval)
    \/ BotClaimWrite
    \/ \E id \in DOMAIN approvalRecords, status \in ResolvedStatuses :
           BotResolveRead(id, status)
    \/ BotResolveWrite

SpecAudit == InitAudit /\ [][NextAudit]_vars

\* The step in which the bot finishes a claim / an update of the audit file.
ClaimStep ==
    auditIo.bot.pc = "read" /\ auditIo.bot.op = "claim" /\ auditIo'.bot.pc = "idle"
UpdateStep ==
    auditIo.bot.pc = "read" /\ auditIo.bot.op = "update" /\ auditIo'.bot.pc = "idle"

\* An unconsumed record for the same contract, target and nano amount.
Claimable(record, approval) ==
    /\ record.consumedByApprovalId = Undefined
    /\ record.contractAddress = CONTRACT_ADDRESS
    /\ record.targetAddress = approval.target
    /\ BigInt(record.amountNano) = approval.amount

ClaimableIn(records, approval) ==
    {k \in 1..Len(records) : Claimable(records[k], approval)}

Newest(indices) == CHOOSE k \in indices : \A j \in indices : j <= k

\* C22: claimMatchingRequestId consumes exactly the most recently appended
\* unconsumed record with the approval's contract, target and nano amount: it
\* sets it to approval_pending, links it to the approval id and returns its
\* request id; every other record is unchanged; when no record matches it
\* returns none and changes and writes nothing.
ClaimConsumesNewestMatch ==
    [][ClaimStep =>
        LET call == last'
            before == call.before
            after == call.after
            matches == ClaimableIn(before, call.approval)
        IN  /\ Len(after) = Len(before)
            /\ IF matches = {}
               THEN /\ call.requestId = NoRequestId
                    /\ after = before
                    /\ auditFile' = auditFile
                    /\ approvalRecords'[call.approval.id].requestId = NoRequestId
               ELSE LET k == Newest(matches) IN
                    /\ call.requestId = before[k].requestId
                    /\ after[k].consumedByApprovalId = call.approval.id
                    /\ after[k].status = "approval_pending"
                    /\ \A f \in DOMAIN before[k] \ {"consumedByApprovalId", "status",
                                                      "statusUpdatedAt"} :
                           after[k][f] = before[k][f]
                    /\ \A j \in 1..Len(before) : j # k => after[j] = before[j]
                    /\ auditFile' = after
                    /\ approvalRecords'[call.approval.id].requestId = call.requestId]_vars

\* A claim found two unconsumed matching records and took the newer one.
ClaimedNewerOfTwoMatches ==
    /\ last.op = "claim"
    /\ Cardinality(ClaimableIn(last.before, last.approval)) = 2
    /\ last.requestId = last.before[2].requestId
    /\ last.after[1].consumedByApprovalId = Undefined

\* C23: once an audit record's consumedByApprovalId is set, no step of the
\* MCP server's append or of the bot's claim and update changes or clears it.
ConsumedLinkImmutable ==
    [][\A k \in 1..Len(auditFile), j \in 1..Len(auditFile') :
           (/\ auditFile[k].consumedByApprovalId # Undefined
            /\ auditFile'[j].requestId = auditFile[k].requestId)
               => auditFile[k].consumedByApprovalId = auditFile'[j].consumedByApprovalId]_vars

\* The bot resolves a record that has no request id: updateRequestAuditStatus
\* returns before reading the file.
UpdateWithoutId(id) ==
    /\ auditIo.bot.pc = "idle"
    /\ auditIo'.bot.pc = "idle"
    /\ id \in DOMAIN approvalRecords
    /\ approvalRecords[id].requestId = NoRequestId
    /\ approvalRecords'[id].status # approvalRecords[id].status

UnknownIn(records, requestId) ==
    \A k \in 1..Len(records) : records[k].requestId # requestId

\* C25: updateRequestAuditStatus called without a request id, or with one that
\* no record of the file has, changes no record and writes nothing, and the
\* approval record it was called for is resolved all the same.
UpdateUnknownIsNoOp ==
    [][/\ \A id \in DOMAIN approvalRecords :
              UpdateWithoutId(id) =>
                  /\ auditFile' = auditFile
                  /\ ~last'.wrote
                  /\ approvalRecords'[id].status = last'.status
                  /\ id \notin DOMAIN pendingApprovals'
       /\ (UpdateStep /\ UnknownIn(auditIo.bot.records, auditIo.bot.record)) =>
              /\ auditFile' = auditFile
              /\ ~last'.wrote
              /\ last'.after = last'.before
              /\ approvalRecords'[auditIo.bot.approvalId].status = auditIo.bot.status]_vars

\* The record whose audit record left the file was resolved, with payments in
\* the file that the update left alone.
LegacyRecordResolved ==
    /\ last.op = "update"
    /\ last.requestId = LegacyRequestId
    /\ ~last.wrote
    /\ Len(last.before) > 0
    /\ auditFile = last.before
    /\ approvalRecords[LegacyRecord.id].status = "rejected"

\* C26: a payment's audit record, once in the file, is in the file after
\* every step of either process.
AuditLogAppendOnly ==
    [][\A k \in 1..Len(auditFile) :
           \E j \in 1..Len(auditFile') :
               auditFile'[j].requestId = auditFile[k].requestId]_vars

Forward(status, next) ==
    \/ next = status
    \/ status \in {"submitted", "approval_pending"} /\ next \in ResolvedStatuses
    \/ status = "submitted" /\ next = "approval_pending"

\* C24: the status of an audit record only moves from submitted or
\* approval_pending to approved, rejected or failed, or from submitted to
\* approval_pending; an approved, rejected or failed record keeps its status.
AuditStatusForward ==
    [][\A k \in 1..Len(auditFile), j \in 1..Len(auditFile') :
           auditFile'[j].requestId = auditFile[k].requestId
               => Forward(auditFile[k].status, auditFile'[j].status)]_vars

(***************************************************************************)
(* SpecFacilitator: requestFacilitatorDecision, one call of it from the    *)
(* first fetch to the return or the throw, against a service that answers  *)
(* each fetch in any of the ways below.                                    *)
(***************************************************************************)
\* config.retryAttempts is Number(process.env.X402_FACILITATOR_RETRY_ATTEMPTS
\* ?? "0"): any number the operator wrote, negative ones included.
RetryInputs == (0 - 1)..MaxRetry

\* A field of the parsed response body, with its typeof.
Absent == [type |-> "undefined", value |-> ""]
JsonString(v) == [type |-> "string", value |-> v]
JsonNumber(v) == [type |-> "number", value |-> v]
JsonBoolean(v) == [type |-> "boolean", value |-> v]

RejectionReason == "insufficient prepaid balance"
BodyAmount == fromNano(1)
FacilitatorInput ==
    [requestId |-> RequestIdOf(1), targetAddress |-> TargetAddress,
     amountInTon |-> fromNano(MaxAmount)]

TransientKinds == {"network", "timeout", "http"}

\* What one fetch can end in: a network error, the abort after timeoutMs, a
\* non-success HTTP status, or a success response with a JSON body.
ServiceResponses ==
    {[kind |-> k, accepted |-> Absent, reason |-> Absent,
      targetAddress |-> Absent, amountInTon |-> Absent] : k \in TransientKinds}
    \cup {[kind |-> "body", accepted |-> a, reason |-> Absent,
            targetAddress |-> t, amountInTon |-> m] :
              a \in {Absent, JsonBoolean("true")},
              t \in {Absent, JsonString(FacilitatorTarget), JsonNumber("10")},
              m \in {Absent, JsonString(BodyAmount), JsonNumber("10")}}
    \cup {[kind |-> "body", accepted |-> JsonBoolean("false"), reason |-> r,
            targetAddress |-> Absent, amountInTon |-> Absent] :
              r \in {Absent, JsonString(RejectionReason)}}

NoError == ""

\* The message of the error thrown inside the try block for a response, or
\* NoError when the response yields a decision.
ErrorOf(response) ==
    LET accepted == IF response.accepted.type = "boolean"
                    THEN response.accepted.value = "true"
                    ELSE TRUE
    IN
    IF response.kind = "network" THEN "fetch failed"
    ELSE IF response.kind = "timeout" THEN "The operation was aborted"
    ELSE IF response.kind = "http"
    THEN "Facilitator error 503: upstream unavailable"
    ELSE IF ~accepted
    THEN IF response.reason.type = "string" THEN response.reason.value
         ELSE "Facilitator rejected the payment request"
    ELSE IF response.targetAddress.type \notin {"undefined", "string"}
    THEN "Facilitator response has invalid targetAddress type"
    ELSE IF response.amountInTon.type \notin {"undefined", "string"}
    THEN "Facilitator response has invalid amountInTon type"
    ELSE NoError

\* The decision returned for a response without error (reference and note
\* are copied from the body in the same way and are left out).
DecisionOf(response, input) ==
    [targetAddress |-> IF response.targetAddress.type = "string"
                       THEN response.targetAddress.value
                       ELSE input.targetAddress,
     amountInTon |-> IF response.amountInTon.type = "string"
                     THEN response.amountInTon.value
                     ELSE input.amountInTon]

FailMsg(details) == "x402 facilitator integration failed: " \o details

\* The head of the for loop: the next fetch, or the throw after the loop.
Attempt(f) ==
    IF f.attempt <= f.retryAttempts + 1
    THEN [f EXCEPT !.pc = "fetch", !.calls = @ + 1]
    ELSE [f EXCEPT !.pc = "thrown", !.result = FailMsg(f.lastError)]

\* The body of the loop from the response on, without the retry.
AfterResponse_NoRetry(f, response) ==
    LET error == ErrorOf(response)
        g == [f EXCEPT !.responses = Append(@, response)]
    IN
    IF error = NoError
    THEN [g EXCEPT !.pc = "returned", !.result = DecisionOf(response, FacilitatorInput)]
    ELSE [g EXCEPT !.lastError = error, !.pc = "thrown", !.result = FailMsg(error)]

\* The body of the loop from the response on: the return, or the catch block.
AfterResponse(f, response) ==
    LET error == ErrorOf(response)
        g == [f EXCEPT !.responses = Append(@, response)]
    IN
    IF error = NoError
    THEN [g EXCEPT !.pc = "returned", !.result = DecisionOf(response, FacilitatorInput)]
    ELSE IF f.attempt < f.retryAttempts + 1
    THEN [g EXCEPT !.lastError = error, !.pc = "sleep"]
    ELSE Attempt([g EXCEPT !.lastError = error, !.attempt = @ + 1])

InitFacilitator ==
    /\ InitLedgerVars
    /\ brokerFile = emptyBrokerState
    /\ pay = <<>>
    /\ auditFile = <<>>
    /\ config \in {DefaultConfig,
                    [X402_FACILITATOR_URL |-> FacilitatorUrl,
                     FACILITATOR_FAIL_OPEN |-> FALSE]}
    /\ facilitator = IdleFacilitator
    /\ InitNoBot

FacilitatorFrame ==
    UNCHANGED <<clock, envelopes, last, brokerFile, pay, config, auditFile, botVars>>

\* requestFacilitatorDecision is called: null without a URL, else the loop.
RequestDecision(retryAttempts) ==
    /\ facilitator.pc = "idle"
    /\ facilitator' =
          IF UrlOf(config) = <<>>
          THEN [facilitator EXCEPT !.pc = "returned", !.result = "null",
                                   !.retryAttempts = retryAttempts]
          ELSE Attempt([facilitator EXCEPT !.retryAttempts = retryAttempts,
                                            !.attempt = 1])
    /\ FacilitatorFrame

\* The fetch in flight ends.
Respond(response) ==
    /\ facilitator.pc = "fetch"
    /\ facilitator' = AfterResponse(facilitator, response)
    /\ FacilitatorFrame

\* sleep(retryBackoffMs * attempt) ends; continue.
Wake ==
    /\ facilitator.pc = "sleep"
    /\ facilitator' = Attempt([facilitator EXCEPT !.attempt = @ + 1])
    /\ FacilitatorFrame

NextFacilitator ==
    \/ \E retryAttempts \in RetryInputs : RequestDecision(retryAttempts)
    \/ \E response \in ServiceResponses : Respond(response)
    \/ Wake

SpecFacilitator == InitFacilitator /\ [][NextFacilitator]_vars

Configured == UrlOf(config) # <<>>
Ended == facilitator.pc \in {"returned", "thrown"}
Rejection(response) ==
    /\ response.kind = "body"
    /\ response.accepted = JsonBoolean("false")
WrongType(response) ==
    /\ response.kind = "body"
    /\ response.accepted # JsonBoolean("false")
    /\ \/ response.targetAddress.type \notin {"undefined", "string"}
       \/ response.amountInTon.type \notin {"undefined", "string"}

\* C27: when the service answers the first fetch with accepted: false, the
\* call has failed right then, after that one fetch, for every retryAttempts
\* >= 0, and the error message holds the reason of the response.
RejectionNeverRetried ==
    (/\ facilitator.retryAttempts >= 0
     /\ facilitator.responses # <<>>
     /\ Rejection(facilitator.responses[1]))
        => /\ facilitator.pc = "thrown"
           /\ facilitator.calls = 1
           /\ facilitator.responses[1].reason.type = "string"
                  => facilitator.result = FailMsg(facilitator.responses[1].reason.value)

\* C28: when the first fetch gets a success response whose targetAddress or
\* amountInTon is present and not a string, the call has failed right then,
\* after that one fetch, for every retryAttempts >= 0.
WrongTypeNeverRetried ==
    (/\ facilitator.retryAttempts >= 0
     /\ facilitator.responses # <<>>
     /\ WrongType(facilitator.responses[1]))
        => /\ facilitator.pc = "thrown"
           /\ facilitator.calls = 1

AllTransient(responses, n) ==
    \A i \in 1..n : responses[i].kind \in TransientKinds

\* C29: after k - 1 transient failures with k <= retryAttempts + 1 the call
\* goes on to fetch number k, and when fetch k gets a response that yields a
\* decision the call has returned that decision after exactly k fetches.
RetriesTransientThenReturns ==
    LET f == facilitator
        k == Len(f.responses)
    IN  /\ (/\ k >= 1
            /\ k < f.retryAttempts + 1
            /\ AllTransient(f.responses, k))
               => /\ f.pc \in {"sleep", "fetch"}
                  /\ f.calls \in {k, k + 1}
        /\ (/\ k >= 1
            /\ AllTransient(f.responses, k - 1)
            /\ ErrorOf(f.responses[k]) = NoError)
               => /\ f.pc = "returned"
                  /\ f.calls = k
                  /\ f.result.targetAddress =
                         (IF f.responses[k].targetAddress.type = "string"
                          THEN FacilitatorTarget ELSE TargetAddress)
                  /\ f.result.amountInTon =
                         (IF f.responses[k].amountInTon.type = "string"
                          THEN BodyAmount ELSE fromNano(MaxAmount))

\* The service failed twice and then answered with an overriding decision.
ReturnedOnThirdFetch ==
    /\ facilitator.pc = "returned"
    /\ facilitator.calls = 3
    /\ facilitator.responses[1].kind = "http"
    /\ facilitator.responses[2].kind = "timeout"
    /\ facilitator.result = [targetAddress |-> FacilitatorTarget,
                             amountInTon |-> BodyAmount]

\* C30: with a URL configured, a call that has ended made at least one and at
\* most retryAttempts + 1 fetches, whatever retryAttempts is configured, and
\* when it failed its error carries the message of the last fetch's error.
BoundedAttempts ==
    (Configured /\ Ended)
        => /\ facilitator.calls >= 1
           /\ facilitator.calls <= facilitator.retryAttempts + 1
           /\ facilitator.pc = "thrown"
                  => /\ facilitator.responses # <<>>
                     /\ facilitator.result =
                            FailMsg(ErrorOf(facilitator.responses[Len(facilitator.responses)]))

(***************************************************************************)
(* SpecPayment: execute_m2m_payment and execute_envelope_payment, one call *)
(* from preparePaymentRequest (with the facilitator loop above) through    *)
(* the reservation and submitPreparedPayment to the audit record.          *)
(***************************************************************************)
\* process.env.X402_FACILITATOR_URL: not set, blank, a URL, a URL written
\* with a leading blank.
UrlInputs == {<<>>, <<" ", " ">>, FacilitatorUrl, <<" ">> \o FacilitatorUrl}

PaymentTools == {"execute_m2m_payment", "execute_envelope_payment"}

NoPrepared ==
    [err |-> ErrNone, requestId |-> <<>>, targetAddr |-> "", amountNano |-> 0,
     amountInTon |-> <<>>]

IdleTool ==
    [pc |-> "idle", tool |-> "", envelopeId |-> "", agentId |-> "",
     requestId |-> <<>>, targetAddress |-> "", amountInTon |-> <<>>,
     prepared |-> NoPrepared, sent |-> <<>>, err |-> ErrNone]

PaymentBrokerState == SavedBrokerState(MaxPeriod)

InitPayment ==
    /\ clock = 0
    /\ last = NoCall
    /\ InitNoBot
    /\ brokerFile = PaymentBrokerState
    /\ envelopes = readBrokerState(brokerFile)
    /\ pay = IdleTool
    /\ auditFile = <<>>
    /\ config \in [X402_FACILITATOR_URL : UrlInputs, FACILITATOR_FAIL_OPEN : BOOLEAN]
    /\ facilitator = IdleFacilitator

\* What the await of requestFacilitatorDecision yields in
\* preparePaymentRequest: null (returned before any fetch), the decision, or
\* the thrown error.
FacilitatorOutcome(f) ==
    IF f.pc = "thrown"
    THEN [kind |-> "throw", targetAddress |-> "", amountInTon |-> <<>>]
    ELSE IF f.calls = 0
    THEN [kind |-> "null", targetAddress |-> "", amountInTon |-> <<>>]
    ELSE [kind |-> "decision", targetAddress |-> f.result.targetAddress,
          amountInTon |-> f.result.amountInTon]

\* The tool handler up to the call of requestFacilitatorDecision.
CallTool(tool, agent) ==
    /\ pay.pc = "idle"
    /\ pay' = [IdleTool EXCEPT
          !.pc = "preparing",
          !.tool = tool,
          !.envelopeId = IF tool = "execute_envelope_payment" THEN "ops" ELSE "",
          !.agentId = IF tool = "execute_envelope_payment" THEN agent ELSE "",
          !.requestId = FacilitatorInput.requestId,
          !.targetAddress = FacilitatorInput.targetAddress,
          !.amountInTon = FacilitatorInput.amountInTon]
    /\ UNCHANGED <<clock, envelopes, last, brokerFile, config, facilitator, auditFile,
                   botVars>>

\* requestFacilitatorDecision has ended: the rest of preparePaymentRequest
\* and the handler up to its await in submitPreparedPayment (for the
\* envelope tool, reserveEnvelopeBudget and saveBrokerState).
PaymentPrepared ==
    LET prepared == preparePaymentRequest(pay.targetAddress, pay.amountInTon,
                                          pay.requestId,
                                          FacilitatorOutcome(facilitator))
        out == reserveEnvelopeBudget(envelopes, pay.envelopeId, pay.agentId,
                                     prepared.amountNano, clock)
    IN
    /\ pay.pc = "preparing"
    /\ facilitator.pc \in {"returned", "thrown"}
    /\ IF prepared.err # ErrNone
       THEN /\ pay' = [pay EXCEPT !.pc = "failed", !.err = facilitator.result]
            /\ UNCHANGED <<envelopes, brokerFile>>
       ELSE IF pay.tool = "execute_m2m_payment"
       THEN /\ pay' = [pay EXCEPT !.pc = "submitting", !.prepared = prepared]
            /\ UNCHANGED <<envelopes, brokerFile>>
       ELSE /\ envelopes' = out.envelopes
            /\ brokerFile' = SavedAfter(out)
            /\ pay' = IF out.err = ErrNone
                      THEN [pay EXCEPT !.pc = "submitting", !.prepared = prepared]
                      ELSE [pay EXCEPT !.pc = "failed", !.prepared = prepared,
                                       !.err = out.err]
    /\ UNCHANGED <<clock, last, config, facilitator, auditFile, botVars>>

\* submitPreparedPayment: contract.send returned; the audit record is
\* appended; the envelope tool reads the allowance and saves.
PaymentSent(remaining) ==
    LET p == pay.prepared
        approvalExpected == p.amountNano > remaining
        out == getEnvelopeAllowance(envelopes, pay.envelopeId, clock)
    IN
    /\ pay.pc = "submitting"
    /\ auditFile' = appendAuditRecord(auditFile,
           [requestId |-> p.requestId,
            contractAddress |-> ContractAddress,
            targetAddress |-> p.targetAddr,
            amountInTon |-> p.amountInTon,
            amountNano |-> BigIntToString(p.amountNano),
            createdAt |-> clock,
            status |-> IF approvalExpected THEN "approval_pending" ELSE "submitted",
            approvalExpected |-> approvalExpected,
            consumedByApprovalId |-> "",
            statusUpdatedAt |-> 0 - 1])
    /\ IF pay.tool = "execute_envelope_payment"
       THEN /\ envelopes' = out.envelopes
            /\ brokerFile' = SavedAfter(out)
       ELSE UNCHANGED <<envelopes, brokerFile>>
    /\ pay' = [pay EXCEPT
          !.pc = "done",
          !.sent = Append(@, [amount |-> p.amountNano, target |-> p.targetAddr])]
    /\ UNCHANGED <<clock, last, config, facilitator, botVars>>

\* submitPreparedPayment threw, before contract.send was called or in it;
\* the envelope tool rolls the reservation back and saves.
PaymentSubmitFailed(sendCalled) ==
    LET p == pay.prepared
        out == rollbackEnvelopeReservation(envelopes, pay.envelopeId, p.amountNano)
    IN
    /\ pay.pc = "submitting"
    /\ IF pay.tool = "execute_envelope_payment"
       THEN /\ envelopes' = out.envelopes
            /\ brokerFile' = SavedAfter(out)
       ELSE UNCHANGED <<envelopes, brokerFile>>
    /\ pay' = [pay EXCEPT
          !.pc = "submitFailed",
          !.err = IF pay.tool = "execute_envelope_payment" /\ out.err # ErrNone
                  THEN out.err ELSE ErrChainSubmission,
          !.sent = IF sendCalled
                   THEN Append(@, [amount |-> p.amountNano, target |-> p.targetAddr])
                   ELSE @]
    /\ UNCHANGED <<clock, last, config, facilitator, auditFile, botVars>>

NextPayment ==
    \/ \E tool \in PaymentTools, agent \in AgentIds : CallTool(tool, agent)
    \/ pay.pc = "preparing" /\ \E retryAttempts \in RetryInputs :
                                  RequestDecision(retryAttempts)
    \/ \E response \in ServiceResponses : Respond(response)
    \/ Wake
    \/ PaymentPrepared
    \/ \E remaining \in RemainingAllowanceInputs : PaymentSent(remaining)
    \/ \E sendCalled \in BOOLEAN : PaymentSubmitFailed(sendCalled)

SpecPayment == InitPayment /\ [][NextPayment]_vars

\* The payment went past preparePaymentRequest.
Proceeded == pay.pc \in {"submitting", "done", "submitFailed"}
EnvelopeTool == pay.tool = "execute_envelope_payment"

\* Every contract.send of the call, the reservation held for it and its
\* audit record are for this target and amount.
PaymentUses(target, amountInTon) ==
    /\ pay.prepared.targetAddr = target
    /\ pay.prepared.amountInTon = amountInTon
    /\ pay.prepared.amountNano = toNano(amountInTon)
    /\ \A i \in 1..Len(pay.sent) :
           pay.sent[i] = [amount |-> toNano(amountInTon), target |-> target]
    /\ pay.pc = "done" =>
           /\ Len(pay.sent) = 1
           /\ Len(auditFile) = 1
           /\ auditFile[1].targetAddress = target
           /\ auditFile[1].amountInTon = amountInTon
           /\ auditFile[1].amountNano = BigIntToString(toNano(amountInTon))
    /\ (EnvelopeTool /\ pay.pc \in {"submitting", "done"}) =>
           /\ BigInt(envelopes[pay.envelopeId].spentInWindowNano) = toNano(amountInTon)
           /\ brokerFile = envelopes

\* Nothing of the payment exists: no contract.send, no reservation, no audit
\* record.
NothingDone ==
    /\ pay.sent = <<>>
    /\ envelopes = PaymentBrokerState
    /\ brokerFile = PaymentBrokerState
    /\ auditFile = <<>>

\* C31: with X402_FACILITATOR_URL not set, empty or blank the service is
\* never called, requestFacilitatorDecision returns null, and the payment
\* goes on with the caller's target and amount.
NoUrlNoCall ==
    (\A i \in 1..Len(config.X402_FACILITATOR_URL) :
         config.X402_FACILITATOR_URL[i] = " ")
        => /\ facilitator.calls = 0
           /\ facilitator.responses = <<>>
           /\ facilitator.pc \in {"idle", "returned"}
           /\ facilitator.pc = "returned" => facilitator.result = "null"
           /\ pay.pc = "failed" => pay.err = ErrNotAssigned
           /\ (Proceeded \/ pay.pc = "failed") =>
                  PaymentUses(pay.targetAddress, pay.amountInTon)

\* A payment was submitted with a blank URL configured.
BlankUrlPaymentDone ==
    /\ config.X402_FACILITATOR_URL = <<" ", " ">>
    /\ pay.pc = "done"
    /\ EnvelopeTool
    /\ pay.sent = <<[amount |-> MaxAmount, target |-> TargetAddress]>>

\* The response that ended the facilitator call.
LastResponse == facilitator.responses[Len(facilitator.responses)]

\* C32: the decision returned for an accepted response has the response's
\* targetAddress and amountInTon where they are strings and the caller's
\* otherwise, and the contract.send, the reservation and the audit record of
\* the payment are for the decision's target and amount.
DecisionDrivesPayment ==
    (facilitator.pc = "returned" /\ facilitator.calls > 0) =>
        LET target == IF LastResponse.targetAddress.type = "string"
                      THEN LastResponse.targetAddress.value
                      ELSE FacilitatorInput.targetAddress
            amountInTon == IF LastResponse.amountInTon.type = "string"
                           THEN LastResponse.amountInTon.value
                           ELSE FacilitatorInput.amountInTon
        IN  /\ facilitator.result.targetAddress = target
            /\ facilitator.result.amountInTon = amountInTon
            /\ pay.pc = "failed" => pay.err = ErrNotAssigned
            /\ (Proceeded \/ pay.pc = "failed") => PaymentUses(target, amountInTon)

\* An envelope payment was submitted to the facilitator's target for the
\* facilitator's amount.
OverriddenPaymentDone ==
    /\ pay.pc = "done"
    /\ EnvelopeTool
    /\ facilitator.pc = "returned"
    /\ pay.sent = <<[amount |-> 1, target |-> FacilitatorTarget]>>
    /\ pay.targetAddress = TargetAddress
    /\ pay.amountInTon = fromNano(MaxAmount)
    /\ auditFile[1].targetAddress = FacilitatorTarget
    /\ BigInt(envelopes["ops"].spentInWindowNano) = 1

\* C33: after a failed facilitator call, with fail-open off the tool ends
\* with the facilitator's error and there is no contract.send, no reservation
\* and no audit record; with fail-open on the payment goes on with the
\* caller's target and amount.
FailClosedOrOpen ==
    (facilitator.pc = "thrown" /\ pay.pc # "preparing") =>
        IF ~config.FACILITATOR_FAIL_OPEN
        THEN /\ pay.pc = "failed"
             /\ pay.err = facilitator.result
             /\ NothingDone
        ELSE /\ pay.pc = "failed" => pay.err = ErrNotAssigned
             /\ PaymentUses(pay.targetAddress, pay.amountInTon)

\* With fail-open on, the facilitator call failed after a retry and the
\* payment was submitted as the caller asked.
FailOpenPaymentDone ==
    /\ facilitator.pc = "thrown"
    /\ facilitator.calls = 2
    /\ LastResponse.kind = "timeout"
    /\ config.FACILITATOR_FAIL_OPEN
    /\ pay.pc = "done"
    /\ pay.sent = <<[amount |-> MaxAmount, target |-> TargetAddress]>>

\* C40: when the service's answer was accepted: false, there is no
\* contract.send, no reservation and no audit record, whatever the fail-open
\* flag.
RejectedNeverSubmitted ==
    (/\ facilitator.pc = "thrown"
     /\ facilitator.responses # <<>>
     /\ Rejection(LastResponse))
        => NothingDone

(***************************************************************************)
(* SpecInstances: the envelope tools of one MCP server process while       *)
(* another server process (one is started per client) uses the same broker *)
(* state file.                                                             *)
(***************************************************************************)
\* Another server process starts (const brokerState = readBrokerState()),
\* reserves for a payment that then succeeds, and saves.
OtherInstancePays(id, agent, amountInTon) ==
    LET state == readBrokerState(brokerFile)
        out == reserveEnvelopeBudget(state, id, agent, toNano(amountInTon), clock)
    IN
    /\ out.err = ErrNone
    /\ brokerFile' = out.envelopes
    /\ UNCHANGED <<clock, envelopes, last, pay, config, facilitator, auditFile,
                   botVars>>

NextInstances ==
    \/ NextPay
    \/ \E id \in EnvelopeIds, agent \in AgentIds, amountInTon \in TonAmountInputs :
           OtherInstancePays(id, agent, amountInTon)

SpecInstances == InitPay /\ [][NextInstances]_vars

\* Handler h passed the allowance check of reserveEnvelopeBudget.
ReserveAccepted(h) == pay[h].pc = "idle" /\ pay'[h].pc = "submitting"

\* C34: a reservation that a server process accepts is one that the
\* allowance check accepts on the broker state file as it is at that moment,
\* also when another process has changed the file since this one read it.
ReserveDecidedOnStore ==
    [][\A h \in Handlers :
           ReserveAccepted(h) =>
               \E agent \in AgentIds :
                   reserveEnvelopeBudget(readBrokerState(brokerFile),
                                         pay'[h].envelopeId, agent,
                                         pay'[h].amountNano, clock).err = ErrNone]_vars

\* Tick t ends in its catch block: it was sending a prompt, it is over, no
\* prompt was delivered and the process was not restarted.
TickFailed(t) ==
    /\ poll.ticks[t].pc = "sending"
    /\ poll'.ticks[t].pc # "sending"
    /\ poll'.pc # "boot"
    /\ prompts' = prompts

\* The transaction tick t was processing.
CutShort(t) == poll.ticks[t].batch[poll.ticks[t].i]

\* C35: when a poll tick fails while sending a notification, the loop keeps
\* running and a next tick can start, and the transaction the tick was
\* processing is not marked seen, is fetched by the next tick and is parsed
\* again.
PollSurvivesErrors ==
    [][\A t \in Ticks :
           TickFailed(t) =>
               /\ poll'.pc = "running"
               /\ poll'.ticks[t].pc = "idle"
               /\ CutShort(t).hash \notin seenTransactions'
               /\ \E k \in 1..Len(getTransactions(PollLimit)) :
                      getTransactions(PollLimit)[k] = CutShort(t)
               /\ parseApprovalFromTransaction(CutShort(t), seenTransactions')
                      # NoApproval]_vars


(***************************************************************************)
(* Actions from another chat.                                              *)
(***************************************************************************)
\* This step is the handler of an approve or reject callback that came from
\* a chat other than the owner chat.
OtherChatStep ==
    \E c \in Callbacks, id \in ApprovalIdInputs :
        \/ ApproveBegin(c, OtherChatId, id)
        \/ Reject(c, OtherChatId, id)

\* C36: an approve or reject action from a chat other than the owner chat
\* changes no persisted state: every approval record, in memory and in the
\* state file, and every audit record is after the action what it was
\* before it.
OtherChatChangesNothing ==
    [][OtherChatStep =>
           /\ approvalRecords' = approvalRecords
           /\ stateFile' = stateFile
           /\ auditFile' = auditFile]_vars


(***************************************************************************)
(* Reject and approve handlers of one approval.                            *)
(***************************************************************************)
\* The reject handler has set the record of the approval to rejected.
Rejected(id) ==
    /\ id \in DOMAIN approvalRecords
    /\ approvalRecords[id].status = "rejected"

\* C37: a rejected approval is never executed: while the record of an
\* approval is rejected, no step calls contract.send for that approval id,
\* whatever approve handlers were in progress when the reject ran.
RejectedNeverExecuted ==
    [][\A id \in ApprovalIdInputs :
           Rejected(id) => \A s \in sends' \ sends : s.approvalId # id]_vars


(***************************************************************************)
(* SpecAuditCrash: SpecAudit with a stop of the bot process between the    *)
(* two file writes of notifyApprovalRequest: saveRequestAuditRecords in    *)
(* claimMatchingRequestId has written the audit file, saveState in         *)
(* upsertRecord has not run.  main() then runs again and loadState builds  *)
(* the memory from the state file.                                         *)
(***************************************************************************)
BotClaimCrash ==
    LET io == auditIo.bot
        approval == CHOOSE a \in ApprovalInputs : a.id = io.approvalId
        claim == claimMatchingRequestId(io.records, approval)
        loaded == loadState(stateFile)
    IN
    /\ io.pc = "read"
    /\ io.op = "claim"
    /\ claim.requestId # NoRequestId
    /\ auditFile' = claim.auditFile
    /\ approvalRecords' = loaded.approvalRecords
    /\ pendingApprovals' = loaded.pendingApprovals
    /\ seenTransactions' = loaded.seenTransactions
    /\ auditIo' = [auditIo EXCEPT !.bot = IdleIo]
    /\ UNCHANGED <<stateFile, last>>
    /\ AuditFrame

NextAuditCrash ==
    \/ NextAudit
    \/ BotClaimCrash

SpecAuditCrash == InitAudit /\ [][NextAuditCrash]_vars

\* The approval records of the state file.
PersistedApprovals == stateFile.approvals

\* The persisted record of the approval names the request id.
LinkedTo(approvalId, requestId) ==
    /\ approvalId \in DOMAIN PersistedApprovals
    /\ PersistedApprovals[approvalId].requestId = requestId

\* C38: cross-store link consistency: in every persisted state no two audit
\* records are consumed by one approval, no two approval records name one
\* request id, and an audit record is consumed by approval A exactly when
\* the state file has a record of A whose requestId is that audit record's
\* request id.
CrossStoreLinksConsistent ==
    /\ \A j, k \in 1..Len(auditFile) :
           (j # k /\ auditFile[j].consumedByApprovalId # Undefined)
               => auditFile[j].consumedByApprovalId # auditFile[k].consumedByApprovalId
    /\ \A a, b \in DOMAIN PersistedApprovals :
           (a # b /\ PersistedApprovals[a].requestId # NoRequestId)
               => PersistedApprovals[a].requestId # PersistedApprovals[b].requestId
    /\ \A k \in 1..Len(auditFile) :
           \A a \in {x.id : x \in ApprovalInputs} \cup {LegacyApproval.id} :
               (a = auditFile[k].consumedByApprovalId)
                   <=> LinkedTo(a, auditFile[k].requestId)


(***************************************************************************)
(* The pendingApprovals map and the pending records.                       *)
(***************************************************************************)
\* No callback handler and no poll tick is in progress.
NoHandlerInProgress ==
    /\ \A c \in Callbacks : cb[c].pc \in {"idle", "done"}
    /\ \A t \in Ticks : poll.ticks[t].pc = "idle"

PendingRecordIds ==
    {id \in DOMAIN approvalRecords : approvalRecords[id].status = "pending"}

\* C39: whenever no handler is in progress, the pendingApprovals map holds
\* exactly the identifiers whose approval record is pending.
PendingMapMatchesRecords ==
    NoHandlerInProgress => DOMAIN pendingApprovals = PendingRecordIds

====
